---- MODULE Spec2Model ----
(***************************************************************************)
(* A model of the record/replay engine of simmy.py and ditto.py:           *)
(*   - _translate_coord        (geometry translation)                      *)
(*   - _intelligent_click      (click with spiral retries)                 *)
(*   - _try_find_click_target  (matching cascade)                          *)
(*   - _save_multi_snips + _cv2_template_match (region extraction and its  *)
(*     use at replay)                                                      *)
(*   - Recorder                (listener threads, stop, save)              *)
(*   - replay_script / replay  (the replay loops and the abort signal;     *)
(*     their entry checks; ditto's foreground gate)                        *)
(*   - AbortHotkey             (the emergency abort chord)                 *)
(*   - JobManager of svn3.py   (one job per working copy)                  *)
(*   - _detect_ui_changes      (comparison of two screen hashes)           *)
(* Each component has its own variables and its own specification; a       *)
(* specification keeps the variables of the other components at their idle *)
(* values.                                                                 *)
(*                                                                         *)
(* Units: lengths are pixels; matching scores are hundredths (0.85 is 85); *)
(* time is counted in ticks of 10 ms.                                      *)
(***************************************************************************)
EXTENDS Integers, Sequences, FiniteSets, TLC

VARIABLES
    \* _translate_coord: position, the three arguments, the returned point
    tr_pc, tr_pt, tr_rec, tr_cur, tr_out,
    \* _intelligent_click: position, arguments x, y, max_radius, the points
    \* handed to pyautogui so far, the returned value
    ck_pc, ck_x, ck_y, ck_max, ck_attempts, ck_result,
    \* _try_find_click_target: position, the event's stored regions and text,
    \* the backends, the loop indices, the current template's score and
    \* location, the matcher calls made so far, the returned value
    ca_pc, ca_event, ca_shot, ca_cv2, ca_ocr, ca_attr, ca_conf, ca_score,
    ca_loc, ca_shape, ca_log, ca_result,
    \* _save_multi_snips and the replay of its result on the same frame:
    \* position, the frame's size (None: <<0, 0>> with sn_shot false), the
    \* point, the stored crops' sizes and origins, the point located at replay
    sn_pc, sn_shot, sn_frame, sn_pt, sn_results, sn_origins, sn_found,
    \* the matcher calls made to locate it, and what that replay met
    sn_calls, sn_env,
    \* A recording session (simmy.py Recorder and main): the main thread's
    \* position, Recorder.running, abort_event, the clock (ticks since
    \* start_time), Recorder.events, the events written to script.json (empty
    \* until save), the
    \* callback in progress on the mouse listener's thread and the one on the
    \* keyboard listener's, the number of
    \* callbacks the two listeners have delivered, and how far save() has
    \* read the events
    rc_main, rc_running, rc_abort, rc_now, rc_events, rc_persisted,
    rc_mouse, rc_key, rc_calls, rc_save,
    \* A replay run (simmy.py replay_script or ditto.py replay): which program,
    \* the loop's position, ditto's speed argument, the events of script.json,
    \* the index of the event the loop is at, the clock (ticks since start_t),
    \* last_ts / last_t, the ticks still to sleep, the clock when the loop
    \* reached the event, abort_event / stop_event, how long it has been set
    \* (capped), the counters, the last action executed, the returned value,
    \* the ticks bring_to_front still sleeps and the calls made of it
    rp_prog, rp_pc, rp_speed, rp_events, rp_i, rp_now, rp_last, rp_left,
    rp_ready, rp_abort, rp_abort_age, rp_success, rp_fail, rp_act, rp_result,
    rp_front,
    \* _translate_coord applied forth and back: position, the point, the two
    \* rectangles, the point returned by the first call, the point returned by
    \* the second
    rt_pc, rt_pt, rt_r1, rt_r2, rt_mid, rt_out,
    \* The body of replay_script's loop for one event, after the sleep:
    \* position, the event (action_type, x, y), what _try_find_click_target
    \* returns for it, whether the platform calls of the action raise, rec_win
    \* and win_rect, the calls made so far, the point handed to the Action
    \* Executor, how the Action Executor's operation ended, the counters
    st_pc, st_ev, st_target, st_platform_ok, st_rec_win, st_win_rect, st_calls,
    st_at, st_exec, st_success, st_fail,
    \* The entry of a replay (replay_script or ditto's replay) up to its loop:
    \* which program, position, the state of script.json, the number of
    \* events in it, whether meta has a target_title, how the Simulator setup
    \* goes, whether the setup was begun, the events gone through, the pointer
    \* and key actions executed, the message printed, the returned value,
    \* abort_event / stop_event, whether the loop has taken an event whose
    \* action it has not reached yet
    en_prog, en_pc, en_file, en_events, en_title, en_env, en_setup, en_seen,
    en_actions, en_report, en_result, en_abort, en_taken,
    \* The abort hotkey: the keys that are down, AbortHotkey.pressed, whether the
    \* listener is running, abort_event
    hk_held, hk_pressed, hk_alive, hk_abort,
    \* ditto's foreground gate: replay or record, whether win32gui was
    \* imported, the position of replay or of record, the window in front,
    \* the events to replay, the index of the event, the results of the two
    \* checks, the outcome of each event gone through, stop_event, the
    \* listeners that are running, the callback each listener's thread is in,
    \* the recorded events, the events written to script.json, the callbacks
    \* delivered
    fg_mode, fg_win32, fg_pc, fg_front, fg_n, fg_i, fg_first, fg_second, fg_status,
    fg_stop, fg_alive, fg_cb, fg_rec, fg_saved, fg_calls,
    \* JobManager of svn3.py: active_jobs, the holder of job_lock, and for
    \* each thread its position, the working copy it asked for and how its last
    \* call or action ended
    jm_active, jm_lock, jm_pc, jm_wc, jm_last,
    \* One call of _detect_ui_changes: its position, the two hashes, the
    \* value returned
    dc_pc, dc_before, dc_after, dc_changed

translateVars == <<tr_pc, tr_pt, tr_rec, tr_cur, tr_out>>

clickVars == <<ck_pc, ck_x, ck_y, ck_max, ck_attempts, ck_result>>

cascadeVars == <<ca_pc, ca_event, ca_shot, ca_cv2, ca_ocr, ca_attr, ca_conf,
                 ca_score, ca_loc, ca_shape, ca_log, ca_result>>

snipVars == <<sn_pc, sn_shot, sn_frame, sn_pt, sn_results, sn_origins, sn_found,
              sn_calls, sn_env>>

recordVars == <<rc_main, rc_running, rc_abort, rc_now, rc_events, rc_persisted,
                rc_mouse, rc_key, rc_calls, rc_save>>

replayVars == <<rp_prog, rp_pc, rp_speed, rp_events, rp_i, rp_now, rp_last,
                rp_left, rp_ready, rp_abort, rp_abort_age, rp_success, rp_fail,
                rp_act, rp_result, rp_front>>

roundTripVars == <<rt_pc, rt_pt, rt_r1, rt_r2, rt_mid, rt_out>>

stepVars == <<st_pc, st_ev, st_target, st_platform_ok, st_rec_win, st_win_rect,
              st_calls, st_at, st_exec, st_success, st_fail>>

entryVars == <<en_prog, en_pc, en_file, en_events, en_title, en_env, en_setup,
               en_seen, en_actions, en_report, en_result, en_abort, en_taken>>

hotkeyVars == <<hk_held, hk_pressed, hk_alive, hk_abort>>

foregroundVars == <<fg_mode, fg_win32, fg_pc, fg_front, fg_n, fg_i, fg_first, fg_second,
                    fg_status, fg_stop, fg_alive, fg_cb, fg_rec, fg_saved, fg_calls>>

jobsVars == <<jm_active, jm_lock, jm_pc, jm_wc, jm_last>>

detectVars == <<dc_pc, dc_before, dc_after, dc_changed>>

vars == <<translateVars, clickVars, cascadeVars, snipVars, recordVars, replayVars,
          roundTripVars, stepVars, entryVars, hotkeyVars, foregroundVars, jobsVars, detectVars>>

\* What the actions of one component leave alone: the other components.
notTranslate == <<clickVars, cascadeVars, snipVars, recordVars, replayVars,
    roundTripVars, stepVars, entryVars, hotkeyVars, foregroundVars, jobsVars, detectVars>>

notClick == <<translateVars, cascadeVars, snipVars, recordVars, replayVars,
    roundTripVars, stepVars, entryVars, hotkeyVars, foregroundVars, jobsVars, detectVars>>

notCascade == <<translateVars, clickVars, snipVars, recordVars, replayVars,
    roundTripVars, stepVars, entryVars, hotkeyVars, foregroundVars, jobsVars, detectVars>>

notSnip == <<translateVars, clickVars, cascadeVars, recordVars, replayVars,
    roundTripVars, stepVars, entryVars, hotkeyVars, foregroundVars, jobsVars, detectVars>>

notRecord == <<translateVars, clickVars, cascadeVars, snipVars, replayVars,
    roundTripVars, stepVars, entryVars, hotkeyVars, foregroundVars, jobsVars, detectVars>>

notReplay == <<translateVars, clickVars, cascadeVars, snipVars, recordVars,
    roundTripVars, stepVars, entryVars, hotkeyVars, foregroundVars, jobsVars, detectVars>>

notRoundTrip == <<translateVars, clickVars, cascadeVars, snipVars, recordVars,
    replayVars, stepVars, entryVars, hotkeyVars, foregroundVars, jobsVars, detectVars>>

notStep == <<translateVars, clickVars, cascadeVars, snipVars, recordVars,
    replayVars, roundTripVars, entryVars, hotkeyVars, foregroundVars, jobsVars, detectVars>>

notEntry == <<translateVars, clickVars, cascadeVars, snipVars, recordVars,
    replayVars, roundTripVars, stepVars, hotkeyVars, foregroundVars, jobsVars, detectVars>>

notHotkey == <<translateVars, clickVars, cascadeVars, snipVars, recordVars, replayVars, roundTripVars, stepVars, entryVars, foregroundVars, jobsVars, detectVars>>

notForeground == <<translateVars, clickVars, cascadeVars, snipVars, recordVars, replayVars, roundTripVars, stepVars, entryVars, hotkeyVars, jobsVars, detectVars>>

notJobs == <<translateVars, clickVars, cascadeVars, snipVars, recordVars, replayVars, roundTripVars, stepVars, entryVars, hotkeyVars, foregroundVars, detectVars>>

notDetect == <<translateVars, clickVars, cascadeVars, snipVars, recordVars, replayVars, roundTripVars, stepVars, entryVars, hotkeyVars, foregroundVars, jobsVars>>

---------------------------------------------------------------------------
(* Arithmetic helpers: Python's max, min and round.                        *)

Max(a, b) == IF a >= b THEN a ELSE b

Min(a, b) == IF a <= b THEN a ELSE b

Abs(a) == IF a >= 0 THEN a ELSE -a

\* The floor of n/d: a rounding that is not Python's round().
RoundDown(n, d) == n \div d

\* Python 3 round() of the value n/d (d > 0): nearest integer, a tie going to
\* the even neighbour.  \div is the floor division.
RoundHalfEven(n, d) ==
    LET q == n \div d
        r == n % d
    IN  IF 2 * r < d THEN q
        ELSE IF 2 * r > d THEN q + 1
        ELSE IF q % 2 = 0 THEN q ELSE q + 1

---------------------------------------------------------------------------
(* Geometry translation: simmy.py _translate_coord.                        *)
(* A rectangle is <<x, y, w, h>>, a point is <<x, y>>.                     *)

\* Bounds of the inputs of the translation.
MaxCoord == 3
MaxOrigin == 1
MaxSize == 3

\* A divisor taken from the wrong rectangle.
ScaleDivisorCurrent(r_size, c_size) == Max(1, c_size)

\* The divisor of a scale factor: max(1, r_w), max(1, r_h).
ScaleDivisor(r_size, c_size) == Max(1, r_size)

Sign(x) == IF x > 0 THEN 1 ELSE IF x < 0 THEN -1 ELSE 0

RECURSIVE Pow2(_)
Pow2(n) == IF n <= 0 THEN 1 ELSE 2 * Pow2(n - 1)

\* The largest j, negative when a < b, with 2^j <= a/b (a, b > 0): the
\* exponent of the double nearest to a/b, up to the rounding of its mantissa.
RECURSIVE FloorLog2(_, _)
FloorLog2(a, b) ==
    IF a >= b
    THEN IF 2 * b <= a THEN 1 + FloorLog2(a, 2 * b) ELSE 0
    ELSE FloorLog2(2 * a, b) - 1

\* 2^k modulo d.
RECURSIVE PowMod2(_, _)
PowMod2(k, d) == IF k <= 0 THEN 1 % d ELSE (2 * PowMod2(k - 1, d)) % d

RECURSIVE OddPart(_)
OddPart(d) == IF d % 2 = 0 THEN OddPart(d \div 2) ELSE d

\* a/b is a power of two (a, b > 0).
IsPow2(a, b) ==
    LET f == FloorLog2(a, b)
    IN  IF f >= 0 THEN a = b * Pow2(f) ELSE a * Pow2(-f) = b

\* The sign of fl(c_o + fl(local * fl(c / den))) - (c_o + local * c / den) in
\* IEEE 754 binary64 arithmetic (53-bit mantissa, round to nearest, ties to
\* even), for an exact value num/den that is an integer plus one half
\* (c >= 0, den > 0).  When c/den is a binary fraction the three operations
\* are exact.  Otherwise the quotient is rounded by less than one unit of its
\* last place (ulp); lengths below are in ulps of the quotient:
\*   - the quotient is off by nfrac/den, upwards when up;
\*   - the product is off by N/den and is rounded to the grid g around the
\*     exact product, n steps away from it;
\*   - the sum keeps that difference when it is more than half a step of the
\*     grid around the exact sum.
FloatDrift(local, c, den, num) ==
    IF c = 0 \/ local = 0 \/ c % OddPart(den) = 0 THEN 0
    ELSE
      LET fs    == FloorLog2(c, den)
          rho   == ((c % den) * PowMod2(52 - fs, den)) % den
          up    == 2 * rho > den
          nfrac == IF up THEN den - rho ELSE rho
          al    == Abs(local)
          m     == FloorLog2(al * c, den) - fs
          g     == Pow2(IF up \/ ~IsPow2(al * c, den) THEN m ELSE m - 1)
          n     == RoundHalfEven(al * nfrac, den * g)
          st    == Sign(local) * (IF up THEN 1 ELSE -1)
          me    == FloorLog2(Abs(num), den) - fs
          meff  == IF st = Sign(num) \/ ~IsPow2(Abs(num), den) THEN me ELSE me - 1
      IN  IF n = 0 THEN 0
          ELSE IF meff < 0 \/ 2 * n * g > Pow2(meff) THEN st
          ELSE 0

\* One axis: int(round(c_x + (rx - r_x) * (c_w / max(1, r_w)))), the sum being
\* computed in floating point: round() sees the exact value except at a tie,
\* where the rounding errors of the quotient, the product and the sum decide.
TranslateAxis(p, r_o, r_size, c_o, c_size) ==
    LET den   == ScaleDivisor(r_size, c_size)
        local == p - r_o
        num   == c_o * den + local * c_size
        drift == IF 2 * (num % den) = den
                 THEN FloatDrift(local, c_size, den, num)
                 ELSE 0
    IN  IF drift > 0 THEN (num \div den) + 1
        ELSE IF drift < 0 THEN num \div den
        ELSE RoundHalfEven(num, den)

translate_coord(recorded_xy, rec_win, cur_win) ==
    << TranslateAxis(recorded_xy[1], rec_win[1], rec_win[3], cur_win[1], cur_win[3]),
       TranslateAxis(recorded_xy[2], rec_win[2], rec_win[4], cur_win[2], cur_win[4]) >>

TrPoints == (-1 .. MaxCoord) \X (-1 .. MaxCoord)

TrRects == (0 .. MaxOrigin) \X (0 .. MaxOrigin) \X (0 .. MaxSize) \X (0 .. MaxSize)

NoPoint == <<-1000, -1000>>

TranslateIdle ==
    /\ tr_pc = "idle"
    /\ tr_pt = NoPoint
    /\ tr_rec = <<0, 0, 0, 0>>
    /\ tr_cur = <<0, 0, 0, 0>>
    /\ tr_out = NoPoint

TranslateInit ==
    /\ tr_pc = "call"
    /\ tr_pt \in TrPoints
    /\ tr_rec \in TrRects
    /\ tr_cur \in TrRects
    /\ tr_out = NoPoint

\* The call _translate_coord(tr_pt, tr_rec, tr_cur).
Translate ==
    /\ tr_pc = "call"
    /\ tr_out' = translate_coord(tr_pt, tr_rec, tr_cur)
    /\ tr_pc' = "done"
    /\ UNCHANGED <<tr_pt, tr_rec, tr_cur>>
    /\ UNCHANGED notTranslate

\* C4: translation is the identity when both rectangles are the same, for every
\* point and every rectangle, those of zero width or zero height included.
C4_IdentityAnyRect ==
    (tr_pc = "done" /\ tr_rec = tr_cur) => tr_out = tr_pt

\* C5: a degenerate rectangle (zero width or height, recorded or current) makes
\* the scale factor of that axis 1.0: the translated coordinate of that axis is
\* current origin + (recorded coordinate - recorded origin).
C5_DegenerateScaleOne ==
    tr_pc = "done" =>
        /\ (tr_rec[3] = 0 \/ tr_cur[3] = 0) =>
               tr_out[1] = tr_cur[1] + (tr_pt[1] - tr_rec[1])
        /\ (tr_rec[4] = 0 \/ tr_cur[4] = 0) =>
               tr_out[2] = tr_cur[2] + (tr_pt[2] - tr_rec[2])

---------------------------------------------------------------------------
(* The click of the Action Executor: simmy.py _intelligent_click.          *)
(* Every pyautogui.moveTo/click pair is one attempt; it raises or not.     *)

\* max_radius's default value.
DEFAULT_MAX_RADIUS == 24

\* The offset of the first retry stage: (-8, 0, 8).
SMALL_STEP == 8

\* The radii of the expanding stage before max_radius.
RADIUS_1 == 12
RADIUS_2 == 18

\* [(dx, dy) for dx in (-r, 0, r) for dy in (-r, 0, r)]: dy runs fastest.
\* The variant without the centre offset is the one the claim C3 words.
ClickGridNoCentre(r) ==
    LET axis == <<-r, 0, r>>
    IN  [k \in 1 .. 8 |->
            LET j == IF k <= 4 THEN k ELSE k + 1
            IN  << axis[((j - 1) \div 3) + 1], axis[((j - 1) % 3) + 1] >>]
ClickGrid(r) ==
    LET axis == <<-r, 0, r>>
    IN  [k \in 1 .. 9 |-> << axis[((k - 1) \div 3) + 1], axis[((k - 1) % 3) + 1] >>]

\* steps of the "small spiral retries".
ClickStepsNoCentre == ClickGridNoCentre(SMALL_STEP)
ClickSteps == ClickGrid(SMALL_STEP)

\* Every offset the function may try, in the order it tries them: the exact
\* point, the steps, then the grids at the radii (12, 18, max_radius).
ClickPlan(max_radius) ==
    << <<0, 0>> >> \o ClickSteps \o ClickGrid(RADIUS_1) \o ClickGrid(RADIUS_2)
        \o ClickGrid(max_radius)

ClickIdle ==
    /\ ck_pc = "idle"
    /\ ck_x = 0
    /\ ck_y = 0
    /\ ck_max = DEFAULT_MAX_RADIUS
    /\ ck_attempts = << >>
    /\ ck_result = FALSE

ClickInit ==
    /\ ck_pc = "run"
    /\ ck_x \in 0 .. MaxCoord
    /\ ck_y \in 0 .. MaxCoord
    /\ ck_max \in {DEFAULT_MAX_RADIUS, DEFAULT_MAX_RADIUS + MaxCoord}
    /\ ck_attempts = << >>
    /\ ck_result = FALSE

\* A try block whose success does not return: the function goes on to the
\* next point of the plan.
ClickAttemptNoStop ==
    /\ ck_pc = "run"
    /\ Len(ck_attempts) < Len(ClickPlan(ck_max))
    /\ LET off == ClickPlan(ck_max)[Len(ck_attempts) + 1]
       IN  ck_attempts' = Append(ck_attempts, <<ck_x + off[1], ck_y + off[2]>>)
    /\ \E ok \in BOOLEAN : ck_result' = (ck_result \/ ok)
    /\ UNCHANGED <<ck_pc, ck_x, ck_y, ck_max>>
    /\ UNCHANGED notClick

\* One try block: moveTo and click at the next point of the plan.  The platform
\* call raises (ok = FALSE: except, pass/continue) or not (return True).
ClickAttempt ==
    /\ ck_pc = "run"
    /\ Len(ck_attempts) < Len(ClickPlan(ck_max))
    /\ LET off == ClickPlan(ck_max)[Len(ck_attempts) + 1]
       IN  ck_attempts' = Append(ck_attempts, <<ck_x + off[1], ck_y + off[2]>>)
    /\ \E ok \in BOOLEAN :
          IF ok
          THEN ck_result' = TRUE /\ ck_pc' = "done"
          ELSE UNCHANGED <<ck_result, ck_pc>>
    /\ UNCHANGED <<ck_x, ck_y, ck_max>>
    /\ UNCHANGED notClick

\* Every attempt raised: return False.
ClickReturnFalse ==
    /\ ck_pc = "run"
    /\ Len(ck_attempts) = Len(ClickPlan(ck_max))
    /\ ck_result' = FALSE
    /\ ck_pc' = "done"
    /\ UNCHANGED <<ck_x, ck_y, ck_max, ck_attempts>>
    /\ UNCHANGED notClick

ClickNext == ClickAttempt \/ ClickReturnFalse

\* The offset of the k-th attempt (k >= 2) inside its stage of nine, written
\* out: the stage's radius times (-1, 0, 1), dy running fastest.
StageRadius(k, max_radius) ==
    CASE k <= 10 -> 8
      [] k <= 19 -> 12
      [] k <= 28 -> 18
      [] OTHER   -> max_radius

NineOffset(k, max_radius) ==
    LET j == (k - 2) % 9
        r == StageRadius(k, max_radius)
    IN  << r * ((j \div 3) - 1), r * ((j % 3) - 1) >>

\* C3 (as amended): the attempts are the exact point once, then the NINE offsets
\* of the +/-8 grid, the centre offset (0,0) included as the fifth of them, then
\* the nine offsets of the 3x3 grids at radius 12, at radius 18 and at
\* max_radius, in that order: at most 37 attempts, the exact point re-attempted
\* in the +/-8 stage and in every grid.
C3_ClickSequence ==
    /\ Len(ck_attempts) <= 37
    /\ \A k \in 1 .. Len(ck_attempts) :
          IF k = 1
          THEN ck_attempts[k] = <<ck_x, ck_y>>
          ELSE ck_attempts[k] = << ck_x + NineOffset(k, ck_max)[1],
                                   ck_y + NineOffset(k, ck_max)[2] >>
    /\ (ck_pc = "done" /\ ~ck_result) => Len(ck_attempts) = 37

\* C3's case: the exact point failed, the first four offsets of the +/-8 stage
\* failed, and the fifth attempt of that stage was made at the exact point again.
C3_Witness ==
    /\ Len(ck_attempts) >= 6
    /\ ck_attempts[6] = <<ck_x, ck_y>>
    /\ ck_attempts[1] = <<ck_x, ck_y>>

\* C3 as worded: the +/-8 stage has the 8 surrounding offsets only, so the exact
\* point is attempted once before the radius stages (attempts 1..9).
C3_Original_ExactNotRetried ==
    \A k \in 2 .. Len(ck_attempts) :
        k <= 9 => ck_attempts[k] # <<ck_x, ck_y>>

\* C12: click stops at its first successful attempt: once an attempt has
\* succeeded the function has returned True and no further point is
\* attempted, whatever the pattern of platform failures before it.
C12_StopsAtFirstSuccess ==
    /\ [](ck_result => ck_pc = "done")
    /\ [][ck_result => UNCHANGED ck_attempts]_vars

\* C12's case: the exact point and the nine attempts of the +/-8 stage failed,
\* an attempt of the radius-12 grid succeeded, and the function returned True
\* with no attempt at radius 18 or beyond.
C12_Witness ==
    /\ ck_pc = "done"
    /\ ck_result
    /\ Len(ck_attempts) \in 11 .. 19
    /\ StageRadius(Len(ck_attempts), ck_max) = RADIUS_1

---------------------------------------------------------------------------
(* The matching cascade: simmy.py _try_find_click_target, with the         *)
(* decisions of _cv2_template_match, _orb_match and _ocr_match.            *)

\* SNIP_MICRO .. SNIP_CONTEXT, (width, height).
SNIP_MICRO_W == 80
SNIP_MICRO_H == 60
SNIP_SMALL_W == 160
SNIP_SMALL_H == 120
SNIP_MEDIUM_W == 320
SNIP_MEDIUM_H == 240
SNIP_LARGE_W == 480
SNIP_LARGE_H == 360
SNIP_CONTEXT_W == 800
SNIP_CONTEXT_H == 600

\* The thresholds, in hundredths.
TEMPLATE_CONF_HIGH == 85
TEMPLATE_CONF_DEFAULT == 78
TEMPLATE_CONF_RELAXED == 62
TEMPLATE_CONF_VERY_RELAXED == 45

\* img_attrs and confs of _try_find_click_target, in the order of the lists.
img_attrs == <<"img_small", "img_medium", "img_large", "img_micro", "img_context">>

confs == <<TEMPLATE_CONF_HIGH, TEMPLATE_CONF_DEFAULT, TEMPLATE_CONF_RELAXED,
           TEMPLATE_CONF_VERY_RELAXED>>

\* The nominal size of the crop stored under an attribute.
SnipSize(attr) ==
    CASE attr = "img_micro"   -> <<SNIP_MICRO_W, SNIP_MICRO_H>>
      [] attr = "img_small"   -> <<SNIP_SMALL_W, SNIP_SMALL_H>>
      [] attr = "img_medium"  -> <<SNIP_MEDIUM_W, SNIP_MEDIUM_H>>
      [] attr = "img_large"   -> <<SNIP_LARGE_W, SNIP_LARGE_H>>
      [] attr = "img_context" -> <<SNIP_CONTEXT_W, SNIP_CONTEXT_H>>

\* A comparison that rejects a peak equal to the confidence.
TemplateHitStrict(max_val, max_loc, w, h, confidence) ==
    IF max_val > confidence
    THEN << max_loc[1] + w \div 2, max_loc[2] + h \div 2 >>
    ELSE NoPoint

\* _cv2_template_match once matchTemplate has given its peak (max_val, max_loc)
\* for a template of w x h pixels: the centre of the best position when the
\* peak meets the confidence, else None.
TemplateHit(max_val, max_loc, w, h, confidence) ==
    IF max_val >= confidence
    THEN << max_loc[1] + w \div 2, max_loc[2] + h \div 2 >>
    ELSE NoPoint

\* How an image attribute of the event stands: not set ("absent"); set, with
\* the file at the recorded path or, failing that, under the script's images
\* directory ("found": candidate or candidate2); set, with no file at either
\* place ("missing").
FileStates == {"absent", "missing", "found"}

\* The peak scores a template may reach: each threshold, just under each
\* threshold, and a perfect match.
ScoreChoices ==
    {TEMPLATE_CONF_VERY_RELAXED - 1, TEMPLATE_CONF_VERY_RELAXED,
     TEMPLATE_CONF_RELAXED - 1, TEMPLATE_CONF_RELAXED,
     TEMPLATE_CONF_DEFAULT - 1, TEMPLATE_CONF_DEFAULT,
     TEMPLATE_CONF_HIGH - 1, TEMPLATE_CONF_HIGH, 100}

\* The sizes the template file of an attribute may have (template.shape): the
\* nominal size, or less when _save_multi_snips clipped the crop at the right
\* or the bottom edge of the frame.
TemplateShapes(attr) ==
    LET size == SnipSize(attr)
    IN  {size, <<size[1] \div 2 + 1, size[2]>>, <<size[1], size[2] \div 2>>}

\* The places a matcher may report.
MatchLocs == {<<0, 0>>, <<MaxCoord, MaxOrigin>>}

CascadeIdle ==
    /\ ca_pc = "idle"
    /\ ca_event = [imgs |-> [i \in 1 .. 5 |-> "absent"], ocr_text |-> FALSE]
    /\ ca_shot = FALSE
    /\ ca_cv2 = FALSE
    /\ ca_ocr = FALSE
    /\ ca_attr = 0
    /\ ca_conf = 0
    /\ ca_score = 0
    /\ ca_loc = <<0, 0>>
    /\ ca_shape = <<0, 0>>
    /\ ca_log = << >>
    /\ ca_result = NoPoint

\* The call _try_find_click_target(event, script_dir): any event, any
\* combination of the optional backends, a screenshot that may fail.
CascadeInit ==
    /\ ca_pc = "start"
    /\ ca_event \in [imgs : [1 .. 5 -> FileStates], ocr_text : BOOLEAN]
    /\ ca_shot \in BOOLEAN
    /\ ca_cv2 \in BOOLEAN
    /\ ca_ocr \in BOOLEAN
    /\ ca_attr = 0
    /\ ca_conf = 0
    /\ ca_score = 0
    /\ ca_loc = <<0, 0>>
    /\ ca_shape = <<0, 0>>
    /\ ca_log = << >>
    /\ ca_result = NoPoint

CallEntry(strategy, attr, conf) == [strategy |-> strategy, attr |-> attr, conf |-> conf]

\* screenshot = _safe_screenshot(); None returns None.
CascadeStart ==
    /\ ca_pc = "start"
    /\ IF ca_shot
       THEN ca_pc' = "attr" /\ ca_attr' = 1
       ELSE ca_pc' = "done" /\ ca_attr' = ca_attr
    /\ UNCHANGED <<ca_event, ca_shot, ca_cv2, ca_ocr, ca_conf, ca_score, ca_loc, ca_shape,
                   ca_log, ca_result>>
    /\ UNCHANGED notCascade

\* A loop head that gives up at the first attribute whose file is at neither
\* place, where the code skips it.
CascadeNextAttrStopOnMissing ==
    /\ ca_pc = "attr"
    /\ IF ca_attr > Len(img_attrs)
       THEN /\ ca_pc' = "ocr"
            /\ UNCHANGED <<ca_attr, ca_conf, ca_score, ca_loc, ca_shape>>
       ELSE IF ca_event.imgs[ca_attr] = "missing"
       THEN /\ ca_pc' = "done"
            /\ UNCHANGED <<ca_attr, ca_conf, ca_score, ca_loc, ca_shape>>
       ELSE IF ca_event.imgs[ca_attr] = "absent"
       THEN /\ ca_attr' = ca_attr + 1
            /\ UNCHANGED <<ca_pc, ca_conf, ca_score, ca_loc, ca_shape>>
       ELSE /\ ca_pc' = "template"
            /\ ca_conf' = 1
            /\ ca_score' \in IF ca_cv2 THEN ScoreChoices ELSE {0}
            /\ ca_loc' \in IF ca_cv2 THEN MatchLocs ELSE {<<0, 0>>}
            /\ ca_shape' \in IF ca_cv2 THEN TemplateShapes(img_attrs[ca_attr]) ELSE {<<0, 0>>}
            /\ UNCHANGED ca_attr
    /\ UNCHANGED <<ca_event, ca_shot, ca_cv2, ca_ocr, ca_log, ca_result>>
    /\ UNCHANGED notCascade

\* The head of "for attr in img_attrs": an attribute that is not set, or whose
\* file is at neither place, is skipped; otherwise the thresholds start, and
\* matchTemplate's peak for this candidate on the screenshot is what it is.
CascadeNextAttr ==
    /\ ca_pc = "attr"
    /\ IF ca_attr > Len(img_attrs)
       THEN /\ ca_pc' = "ocr"
            /\ UNCHANGED <<ca_attr, ca_conf, ca_score, ca_loc, ca_shape>>
       ELSE IF ca_event.imgs[ca_attr] \in {"absent", "missing"}
       THEN /\ ca_attr' = ca_attr + 1
            /\ UNCHANGED <<ca_pc, ca_conf, ca_score, ca_loc, ca_shape>>
       ELSE /\ ca_pc' = "template"
            /\ ca_conf' = 1
            /\ ca_score' \in IF ca_cv2 THEN ScoreChoices ELSE {0}
            /\ ca_loc' \in IF ca_cv2 THEN MatchLocs ELSE {<<0, 0>>}
            /\ ca_shape' \in IF ca_cv2 THEN TemplateShapes(img_attrs[ca_attr]) ELSE {<<0, 0>>}
            /\ UNCHANGED ca_attr
    /\ UNCHANGED <<ca_event, ca_shot, ca_cv2, ca_ocr, ca_log, ca_result>>
    /\ UNCHANGED notCascade

\* Where control goes once the last threshold has rejected the candidate: to
\* the ORB call on the same candidate.
AfterRasterRejectSkipOrb(attr) == <<"attr", attr + 1>>
AfterRasterReject(attr) == <<"orb", attr>>

\* One pass of "for c in confs": hit = _cv2_template_match(candidate,
\* screenshot, c), which is None without cv2; a hit is the centre of the
\* template, of the size of its file, at the peak.
CascadeTemplate ==
    /\ ca_pc = "template"
    /\ ca_log' = Append(ca_log, CallEntry("template", ca_attr, ca_conf))
    /\ LET hit  == IF ca_cv2
                   THEN TemplateHit(ca_score, ca_loc, ca_shape[1], ca_shape[2], confs[ca_conf])
                   ELSE NoPoint
       IN  IF hit # NoPoint
           THEN /\ ca_result' = hit
                /\ ca_pc' = "done"
                /\ UNCHANGED <<ca_attr, ca_conf, ca_score, ca_loc, ca_shape>>
           ELSE IF ca_conf < Len(confs)
           THEN /\ ca_conf' = ca_conf + 1
                /\ UNCHANGED <<ca_pc, ca_attr, ca_result, ca_score, ca_loc, ca_shape>>
           ELSE /\ ca_pc' = AfterRasterReject(ca_attr)[1]
                /\ ca_attr' = AfterRasterReject(ca_attr)[2]
                /\ ca_conf' = 0
                /\ ca_score' = 0
                /\ ca_loc' = <<0, 0>>
                /\ ca_shape' = <<0, 0>>
                /\ UNCHANGED ca_result
    /\ UNCHANGED <<ca_event, ca_shot, ca_cv2, ca_ocr>>
    /\ UNCHANGED notCascade

\* An ORB call whose hit is kept but does not return: the loop goes on.
CascadeOrbNoStop ==
    /\ ca_pc = "orb"
    /\ ca_log' = Append(ca_log, CallEntry("orb", ca_attr, 0))
    /\ \E hit \in MatchLocs \cup {NoPoint} :
          /\ (~ca_cv2) => hit = NoPoint
          /\ ca_result' = IF hit # NoPoint THEN hit ELSE ca_result
    /\ ca_attr' = ca_attr + 1
    /\ ca_pc' = "attr"
    /\ UNCHANGED <<ca_event, ca_shot, ca_cv2, ca_ocr, ca_conf, ca_score, ca_loc,
                   ca_shape>>
    /\ UNCHANGED notCascade

\* hit = _orb_match(candidate, screenshot): None without cv2, else the centroid
\* of the good matches when there are enough of them.
CascadeOrb ==
    /\ ca_pc = "orb"
    /\ ca_log' = Append(ca_log, CallEntry("orb", ca_attr, 0))
    /\ \E hit \in MatchLocs \cup {NoPoint} :
          /\ (~ca_cv2) => hit = NoPoint
          /\ IF hit # NoPoint
             THEN /\ ca_result' = hit
                  /\ ca_pc' = "done"
                  /\ UNCHANGED ca_attr
             ELSE /\ ca_attr' = ca_attr + 1
                  /\ ca_pc' = "attr"
                  /\ UNCHANGED ca_result
    /\ UNCHANGED <<ca_event, ca_shot, ca_cv2, ca_ocr, ca_conf, ca_score, ca_loc,
                   ca_shape>>
    /\ UNCHANGED notCascade

\* tt = event.get("ocr_text") or ""; _ocr_match(tt, screenshot) when tt is not
\* empty, which is None without pytesseract; then return None.
CascadeOcr ==
    /\ ca_pc = "ocr"
    /\ IF ca_event.ocr_text
       THEN /\ ca_log' = Append(ca_log, CallEntry("ocr", 0, 0))
            /\ \E hit \in MatchLocs \cup {NoPoint} :
                  /\ (~ca_ocr) => hit = NoPoint
                  /\ ca_result' = hit
       ELSE UNCHANGED <<ca_log, ca_result>>
    /\ ca_pc' = "done"
    /\ UNCHANGED <<ca_event, ca_shot, ca_cv2, ca_ocr, ca_attr, ca_conf, ca_score,
                   ca_loc, ca_shape>>
    /\ UNCHANGED notCascade

CascadeNext ==
    CascadeStart \/ CascadeNextAttr \/ CascadeTemplate \/ CascadeOrb \/ CascadeOcr

\* The place of a matcher call in the order the code follows: region by region
\* (small, medium, large, micro, context), raster before features within a
\* region, the thresholds from high to very relaxed, text after every region.
CallRank(e) ==
    CASE e.strategy = "template" -> e.attr * 10 + e.conf
      [] e.strategy = "orb"      -> e.attr * 10 + 5
      [] e.strategy = "ocr"      -> 60

\* C2 (as amended): the cascade goes region by region.  For each stored region
\* whose file is found, in the order small, medium, large, micro, context, it
\* tries raster matching at the four thresholds and then, when all four
\* rejected it, feature matching on that same region, before it touches the
\* next region; text matching comes after every region.
C2_PerRegionOrder ==
    /\ \A i \in 1 .. Len(ca_log) : \A j \in 1 .. Len(ca_log) :
          i < j => CallRank(ca_log[i]) < CallRank(ca_log[j])
    /\ \A i \in 1 .. Len(ca_log) :
          ca_log[i].strategy = "orb" =>
              /\ i > Len(confs)
              /\ \A c \in 1 .. Len(confs) :
                    ca_log[i - Len(confs) + c - 1] = CallEntry("template", ca_log[i].attr, c)
    /\ \A i \in 1 .. Len(ca_log) - 1 :
          (ca_log[i].strategy = "template" /\ ca_log[i].conf = Len(confs)) =>
              ca_log[i + 1] = CallEntry("orb", ca_log[i].attr, 0)
    /\ (ca_pc = "done" /\ ca_log # << >>
           /\ ca_log[Len(ca_log)].strategy = "template"
           /\ ca_log[Len(ca_log)].conf = Len(confs)) => ca_result # NoPoint

\* C2's case: feature matching on one region was attempted and missed, and
\* raster matching on a later region came after it.
C2_Witness ==
    \E i \in 1 .. Len(ca_log) : \E j \in 1 .. Len(ca_log) :
        /\ i < j
        /\ ca_log[i].strategy = "orb"
        /\ ca_log[j].strategy = "template"
        /\ ca_log[j].attr > ca_log[i].attr

\* C2 as worded: three global phases, so feature matching on one region is
\* never attempted before raster matching on a later region.
C2_Original_GlobalPhases ==
    \A i \in 1 .. Len(ca_log) : \A j \in 1 .. Len(ca_log) :
        (i < j /\ ca_log[i].strategy = "orb") => ca_log[j].strategy # "template"

\* The last matcher call made.
LastCall == ca_log[Len(ca_log)]

\* C15: the cascade stops at its first acceptance: once a matcher call has
\* given a hit the function has returned, no further call is made, and the
\* returned point is the point of that hit (for a raster hit: the centre of
\* the best position, at the first threshold the peak meets).
C15_StopsAtFirstHit ==
    /\ [](ca_result # NoPoint =>
            /\ ca_pc = "done"
            /\ ca_log # << >>
            /\ LastCall.strategy = "template" =>
                  /\ ca_score >= confs[LastCall.conf]
                  /\ LastCall.conf > 1 => ca_score < confs[LastCall.conf - 1]
                  /\ ca_result = << ca_loc[1] + ca_shape[1] \div 2,
                                    ca_loc[2] + ca_shape[2] \div 2 >>)
    /\ [][ca_result # NoPoint => UNCHANGED <<ca_log, ca_result>>]_vars

\* C15's case: the small region was accepted by feature matching while the
\* medium region and a recorded text were still there to be tried.
C15_Witness ==
    /\ ca_pc = "done"
    /\ ca_result # NoPoint
    /\ LastCall = CallEntry("orb", 1, 0)
    /\ ca_event.imgs[2] = "found"
    /\ ca_event.ocr_text

\* C21: raster matching tries the thresholds 0.85, 0.78, 0.62, 0.45 in that
\* order; a size is accepted at the first threshold its peak meets, is
\* rejected (control goes on to feature matching) exactly when its peak is
\* below 0.45 at the last threshold, and the accepted point is the centre of
\* the best position whatever the threshold.
C21_DescendingThresholds ==
    /\ [](/\ confs = <<85, 78, 62, 45>>
          /\ ca_pc = "template" =>
                \A c \in 1 .. ca_conf - 1 : ca_score < confs[c])
    /\ [][ca_pc = "template" =>
            /\ ca_log' = Append(ca_log, CallEntry("template", ca_attr, ca_conf))
            /\ ca_result' # NoPoint <=> ca_score >= confs[ca_conf]
            /\ ca_pc' = "orb" <=>
                  (ca_conf = Len(confs) /\ ca_score < TEMPLATE_CONF_VERY_RELAXED)
            /\ ca_result' # NoPoint =>
                  ca_result' = << ca_loc[1] + ca_shape[1] \div 2,
                                 ca_loc[2] + ca_shape[2] \div 2 >>]_vars

\* C21's case: a peak of exactly 0.45 was refused by the three higher
\* thresholds and accepted by the last.
C21_Witness ==
    /\ ca_pc = "done"
    /\ ca_result # NoPoint
    /\ LastCall.strategy = "template"
    /\ LastCall.conf = Len(confs)
    /\ ca_score = TEMPLATE_CONF_VERY_RELAXED

\* C16: a stored region whose file is at neither place is skipped: no matcher
\* is called on it, and a cascade that returns absent on a frame has made
\* every call on every region whose file is found (four thresholds, then
\* features) and, when the event has a recorded text, the text call.
C16_MissingFileSkipped ==
    /\ \A i \in 1 .. Len(ca_log) :
          ca_log[i].strategy # "ocr" => ca_event.imgs[ca_log[i].attr] = "found"
    /\ (ca_pc = "done" /\ ca_shot /\ ca_result = NoPoint) =>
          /\ \A a \in 1 .. Len(img_attrs) :
                ca_event.imgs[a] = "found" =>
                    /\ \A c \in 1 .. Len(confs) :
                          \E i \in 1 .. Len(ca_log) : ca_log[i] = CallEntry("template", a, c)
                    /\ \E i \in 1 .. Len(ca_log) : ca_log[i] = CallEntry("orb", a, 0)
          /\ ca_event.ocr_text =>
                \E i \in 1 .. Len(ca_log) : ca_log[i] = CallEntry("ocr", 0, 0)

\* C16's case: the small region's file is missing, the medium region and the
\* text were still tried, and the cascade returned absent.
C16_Witness ==
    /\ ca_pc = "done"
    /\ ca_shot
    /\ ca_result = NoPoint
    /\ ca_event.imgs[1] = "missing"
    /\ ca_event.imgs[2] = "found"
    /\ ca_log # << >>
    /\ ca_log[1] = CallEntry("template", 2, 1)
    /\ LastCall = CallEntry("ocr", 0, 0)

---------------------------------------------------------------------------
(* Region extraction, simmy.py _save_multi_snips, and what the cascade     *)
(* finds when the stored crops are matched against the very frame they     *)
(* were cut from.                                                          *)

\* The frames of the model: a full display and one smaller than most crops.
FrameW == 1000
FrameH == 700
SmallFrameDivisor == 8

\* The spacing of the points sampled on each axis.
PointStep == 50

\* sizes of _save_multi_snips, in the order of the dict.
snip_names == <<"img_micro", "img_small", "img_medium", "img_large", "img_context">>

SnipNames == {snip_names[i] : i \in 1 .. Len(snip_names)}

\* A crop whose top-left corner, not its centre, is the point.
CropRectCorner(sw, sh, w, h, x, y) ==
    LET left   == Max(0, x)
        top    == Max(0, y)
        right  == Min(sw, left + w)
        bottom == Min(sh, top + h)
    IN  <<left, top, right, bottom>>

\* left, top, right, bottom of the crop of size w x h around (x, y) in a frame
\* of sw x sh pixels.
CropRect(sw, sh, w, h, x, y) ==
    LET left   == Max(0, x - w \div 2)
        top    == Max(0, y - h \div 2)
        right  == Min(sw, left + w)
        bottom == Min(sh, top + h)
    IN  <<left, top, right, bottom>>

\* A test that finds no rectangle empty.
CropEmptyNever(rect) == FALSE

\* "if right <= left or bottom <= top: continue".
CropEmpty(rect) == rect[3] <= rect[1] \/ rect[4] <= rect[2]

NoEntry == << >>

FrameSizes == {<<FrameW, FrameH>>, <<FrameW \div SmallFrameDivisor, FrameH \div SmallFrameDivisor>>}

\* The coordinates sampled on an axis of length n: a grid, the last pixel, and
\* coordinates outside the frame on both sides.
AxisSamples(n) ==
    {k * PointStep : k \in 0 .. ((n - 1) \div PointStep)} \cup {-PointStep, n - 1, n, n + PointStep}

\* What replay meets: whether cv2 is installed, what the frame shows, whether
\* the event has an ocr_text and whether pytesseract is installed.  The frame
\* is the one the crops were cut from, so the normalised correlation of a
\* crop is 1 wherever the frame shows the content of the crop.
\*   "perfect"  - the frame shows the content of each crop at the place it
\*                was cut from and nowhere else: the peak is there;
\*   "repeated" - the frame repeats itself (a pattern, a list of equal
\*                rows): it shows the content of each crop at (0, 0) too,
\*                the first place with the score 1, which minMaxLoc returns;
\*   "flat"     - the frame has one colour: a crop has no variance, its
\*                normalised correlation is 0 / 0 at every place, and what
\*                matchTemplate makes of it is not fixed by this code: either
\*                a score under every threshold, or the score 1 at some
\*                place; ORB finds no keypoint.
MatchKinds == {"perfect", "repeated", "flat"}

ReplayEnvs == [cv2 : BOOLEAN, match : MatchKinds, ocr_text : BOOLEAN, ocr : BOOLEAN]

NoEnv == [cv2 |-> FALSE, match |-> "flat", ocr_text |-> FALSE, ocr |-> FALSE]

SnipIdle ==
    /\ sn_pc = "idle"
    /\ sn_shot = FALSE
    /\ sn_frame = <<0, 0>>
    /\ sn_pt = <<0, 0>>
    /\ sn_results = [a \in SnipNames |-> NoEntry]
    /\ sn_origins = [a \in SnipNames |-> NoEntry]
    /\ sn_found = NoPoint
    /\ sn_calls = << >>
    /\ sn_env = NoEnv

SnipInit ==
    /\ sn_pc = "record"
    /\ sn_shot \in BOOLEAN
    /\ sn_frame \in FrameSizes
    /\ sn_pt \in AxisSamples(sn_frame[1]) \X AxisSamples(sn_frame[2])
    /\ sn_results = [a \in SnipNames |-> NoEntry]
    /\ sn_origins = [a \in SnipNames |-> NoEntry]
    /\ sn_found = NoPoint
    /\ sn_calls = << >>
    /\ sn_env = NoEnv

\* _save_multi_snips(outdir, x, y).  No screenshot: ({}, {}).  Otherwise each
\* size whose clipped rectangle is not empty is cropped and saved; a save that
\* raises (the sizes in failing) leaves no entry in either dict.  results keeps
\* the file, of which the model keeps the image's size; origins its left, top.
SaveMultiSnips ==
    /\ sn_pc = "record"
    /\ \E failing \in SUBSET SnipNames :
          LET rect(a) == CropRect(sn_frame[1], sn_frame[2], SnipSize(a)[1],
                                  SnipSize(a)[2], sn_pt[1], sn_pt[2])
              kept(a) == sn_shot /\ ~CropEmpty(rect(a)) /\ a \notin failing
          IN  /\ (\A a \in failing : sn_shot /\ ~CropEmpty(rect(a)))
              /\ sn_results' = [a \in SnipNames |->
                                   IF kept(a)
                                   THEN <<rect(a)[3] - rect(a)[1], rect(a)[4] - rect(a)[2]>>
                                   ELSE NoEntry]
              /\ sn_origins' = [a \in SnipNames |->
                                   IF kept(a) THEN <<rect(a)[1], rect(a)[2]>> ELSE NoEntry]
    /\ sn_pc' = "recorded"
    /\ UNCHANGED <<sn_shot, sn_frame, sn_pt, sn_found, sn_calls, sn_env>>
    /\ UNCHANGED notSnip

\* The place of an attribute in img_attrs.
AttrIndex(a) == CHOOSE i \in 1 .. Len(img_attrs) : img_attrs[i] = a

\* The attributes of the event that hold a stored crop, in the order the
\* cascade visits them.
StoredInCascadeOrder(results) ==
    SelectSeq(img_attrs, LAMBDA a : results[a] # NoEntry)

\* The matcher calls of a cascade in which every stored region is rejected:
\* for each region the four thresholds, then ORB.
RejectedCalls(stored) ==
    [k \in 1 .. (Len(confs) + 1) * Len(stored) |->
        LET a == stored[((k - 1) \div (Len(confs) + 1)) + 1]
            j == ((k - 1) % (Len(confs) + 1)) + 1
        IN  IF j <= Len(confs)
            THEN CallEntry("template", AttrIndex(a), j)
            ELSE CallEntry("orb", AttrIndex(a), 0)]

\* _try_find_click_target on the recorded event against the frame the crops
\* were cut from.  With cv2 and a score of 1, the first stored region is
\* accepted at the first threshold and _cv2_template_match returns the
\* centre of the template at the peak.  Without cv2, or with a score under
\* every threshold, every region is rejected by the four thresholds and by
\* ORB, and the text of the event, when it has one, is looked for with
\* _ocr_match, which is None without pytesseract and otherwise a hit or None.
ReplayLocateSameFrame ==
    /\ sn_pc = "recorded"
    /\ \E env \in ReplayEnvs :
       \E ocr_hit \in MatchLocs \cup {NoPoint} :
       \E flat_peak \in MatchLocs \cup {NoPoint} :
          LET stored == StoredInCascadeOrder(sn_results)
              a      == stored[1]
              peak   == CASE env.match = "perfect"  -> sn_origins[a]
                          [] env.match = "repeated" -> <<0, 0>>
                          [] OTHER                  -> flat_peak
          IN  /\ sn_env' = env
              /\ (~(env.ocr_text /\ env.ocr)) => ocr_hit = NoPoint
              /\ (env.match # "flat" \/ ~env.cv2) => flat_peak = NoPoint
              /\ IF stored # << >> /\ env.cv2 /\ peak # NoPoint
                 THEN /\ sn_found' = TemplateHit(100, peak, sn_results[a][1],
                                                 sn_results[a][2], confs[1])
                      /\ sn_calls' = <<CallEntry("template", AttrIndex(a), 1)>>
                 ELSE /\ sn_found' = ocr_hit
                      /\ sn_calls' = IF env.ocr_text
                                     THEN Append(RejectedCalls(stored), CallEntry("ocr", 0, 0))
                                     ELSE RejectedCalls(stored)
    /\ sn_pc' = "located"
    /\ UNCHANGED <<sn_shot, sn_frame, sn_pt, sn_results, sn_origins>>
    /\ UNCHANGED notSnip

SnipNext == SaveMultiSnips \/ ReplayLocateSameFrame

InFrame(pt, frame) ==
    /\ 0 <= pt[1] /\ pt[1] < frame[1]
    /\ 0 <= pt[2] /\ pt[2] < frame[2]

\* C6: for every recorded point of the frame with at least one stored region,
\* replay against the identical frame, on which each stored crop matches
\* perfectly at the place it was cut from, locates, by raster matching at the
\* highest threshold, a point within 2 px of the recorded point on both axes,
\* also when the point is closer to a frame edge than half the crop size.
C6_SameFrameWithin2px ==
    (/\ sn_pc = "located"
     /\ sn_env.cv2
     /\ sn_env.match = "perfect"
     /\ InFrame(sn_pt, sn_frame)
     /\ \E a \in SnipNames : sn_results[a] # NoEntry)
    => /\ sn_found # NoPoint
       /\ Abs(sn_found[1] - sn_pt[1]) <= 2
       /\ Abs(sn_found[2] - sn_pt[2]) <= 2

C25_CropsWithinFrame ==
    sn_pc # "record" =>
        \A a \in SnipNames :
            LET w      == SnipSize(a)[1]
                h      == SnipSize(a)[2]
                left   == Max(0, sn_pt[1] - w \div 2)
                top    == Max(0, sn_pt[2] - h \div 2)
                origin == sn_origins[a]
                size   == sn_results[a]
            IN  /\ (size # NoEntry) <=> (origin # NoEntry)
                /\ (left >= sn_frame[1] \/ top >= sn_frame[2]) => size = NoEntry
                /\ ~sn_shot => size = NoEntry
                /\ size # NoEntry =>
                      /\ origin = <<left, top>>
                      /\ 0 <= origin[1]
                      /\ origin[1] < origin[1] + size[1]
                      /\ origin[1] + size[1] <= sn_frame[1]
                      /\ 0 <= origin[2]
                      /\ origin[2] < origin[2] + size[2]
                      /\ origin[2] + size[2] <= sn_frame[2]
                      /\ size[1] <= w
                      /\ size[2] <= h

\* C25's case: a point outside the frame on the right, for which the smallest
\* size has an empty rectangle and is omitted while the largest, clipped to
\* the frame's edge, is kept with its origin.
C25_Witness ==
    /\ sn_pc = "recorded"
    /\ sn_pt[1] > sn_frame[1]
    /\ sn_results["img_micro"] = NoEntry
    /\ sn_origins["img_micro"] = NoEntry
    /\ sn_results["img_context"] # NoEntry
    /\ sn_origins["img_context"] # NoEntry
    /\ sn_origins["img_context"][1] + sn_results["img_context"][1] = sn_frame[1]

---------------------------------------------------------------------------
(* A recording session: simmy.py Recorder, driven by main().  The mouse    *)
(* listener and the keyboard listener of pynput each run their callbacks   *)
(* on a thread of their own; main() starts the recorder, waits for Enter,  *)
(* stops it and saves.  The listener threads are daemon threads: they end  *)
(* with the process.  Time passes between any two steps.                   *)

\* Bounds of a session: callbacks delivered by the two listeners together,
\* clock ticks.
MaxCalls == 2
MaxRecordTime == 1

\* _img_hash of a screenshot; "none" is screenshot_hash = None (no screenshot).
HashValues == {"none", "h1", "h2"}

\* ui_state_after of an event that has none.
Unset == "unset"

NoHandler == [pc |-> "idle"]

\* A comparison that is not the code's: it does not look at whether the
\* hashes are present.
DetectDiffer(before_hash, after_hash) == before_hash # after_hash

\* _detect_ui_changes(before_hash, after_hash): bool(before_hash and
\* after_hash and before_hash != after_hash).
detect_ui_changes(before_hash, after_hash) ==
    before_hash # "none" /\ after_hash # "none" /\ before_hash # after_hash

\* EnhancedEvent(...) as _record_event builds it.
PointerEvent(ts, kind, before) ==
    [timestamp |-> ts, action_type |-> kind, ui_state_before |-> before,
     ui_state_after |-> Unset, action_validated |-> FALSE, validation_confidence |-> 0]

\* EnhancedEvent(...) as on_press and on_release build it.
KeyEvent(ts, kind) ==
    [timestamp |-> ts, action_type |-> kind, ui_state_before |-> Unset,
     ui_state_after |-> Unset, action_validated |-> FALSE, validation_confidence |-> 0]

\* save() before it has begun.
NoSave == [pos |-> 0, field |-> "none", cur |-> << >>, out |-> << >>]

RecordIdle ==
    /\ rc_main = "off"
    /\ rc_running = FALSE
    /\ rc_abort = FALSE
    /\ rc_now = 0
    /\ rc_events = << >>
    /\ rc_persisted = << >>
    /\ rc_mouse = NoHandler
    /\ rc_key = NoHandler
    /\ rc_calls = 0
    /\ rc_save = NoSave

\* After Recorder.__init__: Idle.
RecordInit ==
    /\ rc_main = "idle"
    /\ rc_running = FALSE
    /\ rc_abort = FALSE
    /\ rc_now = 0
    /\ rc_events = << >>
    /\ rc_persisted = << >>
    /\ rc_mouse = NoHandler
    /\ rc_key = NoHandler
    /\ rc_calls = 0
    /\ rc_save = NoSave

\* The listeners deliver callbacks from start() until the process ends.
ListenersAlive == rc_main \in {"recording", "stopped", "saving", "saved"}

\* Recorder.start(): start_time = time.time(), running = True, listeners started.
RecStart ==
    /\ rc_main = "idle"
    /\ rc_main' = "recording"
    /\ rc_running' = TRUE
    /\ UNCHANGED <<rc_abort, rc_now, rc_events, rc_persisted, rc_mouse, rc_key,
                   rc_calls, rc_save>>
    /\ UNCHANGED notRecord

\* Enter was pressed: Recorder.stop() sets running = False and asks the
\* listeners to stop; it does not wait for a callback in progress.
RecStop ==
    /\ rc_main = "recording"
    /\ rc_main' = "stopped"
    /\ rc_running' = FALSE
    /\ UNCHANGED <<rc_abort, rc_now, rc_events, rc_persisted, rc_mouse, rc_key,
                   rc_calls, rc_save>>
    /\ UNCHANGED notRecord

\* Recorder.save() begins: the list comprehension [e.to_dict() for e in
\* self.events] starts at the first event.  No lock is held: the callbacks go
\* on between any two reads of save().
RecSaveBegin ==
    /\ rc_main = "stopped"
    /\ rc_main' = "saving"
    /\ rc_save' = [pos |-> 1, field |-> "after", cur |-> << >>, out |-> << >>]
    /\ UNCHANGED <<rc_running, rc_abort, rc_now, rc_events, rc_persisted, rc_mouse,
                   rc_key, rc_calls>>
    /\ UNCHANGED notRecord

\* to_dict() is asdict(e), which reads the fields in the order of their
\* declaration: the fields no callback writes after the append (timestamp,
\* action_type, ui_state_before) and then ui_state_after.
SaveReadAfter ==
    /\ rc_main = "saving"
    /\ rc_save.field = "after"
    /\ rc_save.pos <= Len(rc_events)
    /\ LET ev == rc_events[rc_save.pos]
       IN  rc_save' = [rc_save EXCEPT
                         !.cur = [timestamp |-> ev.timestamp,
                                  action_type |-> ev.action_type,
                                  ui_state_before |-> ev.ui_state_before,
                                  ui_state_after |-> ev.ui_state_after,
                                  action_validated |-> FALSE,
                                  validation_confidence |-> 0],
                         !.field = "validated"]
    /\ UNCHANGED <<rc_main, rc_running, rc_abort, rc_now, rc_events, rc_persisted,
                   rc_mouse, rc_key, rc_calls>>
    /\ UNCHANGED notRecord

\* asdict reads action_validated.
SaveReadValidated ==
    /\ rc_main = "saving"
    /\ rc_save.field = "validated"
    /\ rc_save' = [rc_save EXCEPT
                     !.cur.action_validated = rc_events[rc_save.pos].action_validated,
                     !.field = "confidence"]
    /\ UNCHANGED <<rc_main, rc_running, rc_abort, rc_now, rc_events, rc_persisted,
                   rc_mouse, rc_key, rc_calls>>
    /\ UNCHANGED notRecord

\* asdict reads validation_confidence; the dictionary of the event is
\* complete and the comprehension goes to the next event.
SaveReadConfidence ==
    /\ rc_main = "saving"
    /\ rc_save.field = "confidence"
    /\ LET done == [rc_save.cur EXCEPT !.validation_confidence =
                        rc_events[rc_save.pos].validation_confidence]
       IN  rc_save' = [pos |-> rc_save.pos + 1, field |-> "after", cur |-> << >>,
                       out |-> Append(rc_save.out, done)]
    /\ UNCHANGED <<rc_main, rc_running, rc_abort, rc_now, rc_events, rc_persisted,
                   rc_mouse, rc_key, rc_calls>>
    /\ UNCHANGED notRecord

\* The comprehension finds no further event; json.dumps of the payload it
\* built goes to script.json.
RecSave ==
    /\ rc_main = "saving"
    /\ rc_save.field = "after"
    /\ rc_save.pos > Len(rc_events)
    /\ rc_main' = "saved"
    /\ rc_persisted' = rc_save.out
    /\ rc_save' = NoSave
    /\ UNCHANGED <<rc_running, rc_abort, rc_now, rc_events, rc_mouse, rc_key,
                   rc_calls>>
    /\ UNCHANGED notRecord

\* main() returns and the process ends, the listener threads with it.
RecExit ==
    /\ rc_main = "saved"
    /\ rc_main' = "exited"
    /\ UNCHANGED <<rc_running, rc_abort, rc_now, rc_events, rc_persisted, rc_mouse, rc_key,
                   rc_calls, rc_save>>
    /\ UNCHANGED notRecord

\* AbortHotkey.on_press completes the chord: abort_event.set().
RecAbort ==
    /\ rc_main \in {"idle", "recording", "stopped", "saving", "saved"}
    /\ ~rc_abort
    /\ rc_abort' = TRUE
    /\ UNCHANGED <<rc_main, rc_running, rc_now, rc_events, rc_persisted, rc_mouse, rc_key,
                   rc_calls, rc_save>>
    /\ UNCHANGED notRecord

\* Time passes.
RecTick ==
    /\ rc_main \in {"recording", "stopped", "saving", "saved"}
    /\ rc_now < MaxRecordTime
    /\ rc_now' = rc_now + 1
    /\ UNCHANGED <<rc_main, rc_running, rc_abort, rc_events, rc_persisted, rc_mouse, rc_key,
                   rc_calls, rc_save>>
    /\ UNCHANGED notRecord

\* on_click / on_scroll begin on the mouse thread: the guard "not running or
\* abort set", and for a click the test of pressed.  A callback that passes
\* goes on into _record_event, where it first takes a screenshot
\* (_capture_ui_state).
MouseEnter ==
    /\ ListenersAlive
    /\ rc_mouse.pc = "idle"
    /\ rc_calls < MaxCalls
    /\ rc_calls' = rc_calls + 1
    /\ \E kind \in {"mouse_click", "mouse_release", "mouse_scroll"} :
          IF (~rc_running) \/ rc_abort \/ kind = "mouse_release"
          THEN rc_mouse' = NoHandler
          ELSE rc_mouse' = [pc |-> "capture", kind |-> kind]
    /\ UNCHANGED <<rc_main, rc_running, rc_abort, rc_now, rc_events, rc_persisted,
                   rc_key, rc_save>>
    /\ UNCHANGED notRecord

\* _record_event: ui_before = _capture_ui_state() has returned; ev =
\* EnhancedEvent(timestamp=self._ts(), ...) reads the clock now.
MouseStamp ==
    /\ rc_main # "exited"
    /\ rc_mouse.pc = "capture"
    /\ \E h \in HashValues :
          rc_mouse' = [pc |-> "append", ev |-> PointerEvent(rc_now, rc_mouse.kind, h)]
    /\ UNCHANGED <<rc_main, rc_running, rc_abort, rc_now, rc_events, rc_persisted,
                   rc_key, rc_calls, rc_save>>
    /\ UNCHANGED notRecord

\* _record_event: the snips and the OCR text are taken (a screenshot each),
\* then self.events.append(ev).
MouseAppend ==
    /\ rc_main # "exited"
    /\ rc_mouse.pc = "append"
    /\ rc_events' = Append(rc_events, rc_mouse.ev)
    /\ rc_mouse' = [pc |-> "validate", idx |-> Len(rc_events) + 1]
    /\ UNCHANGED <<rc_main, rc_running, rc_abort, rc_now, rc_persisted, rc_key,
                   rc_calls, rc_save>>
    /\ UNCHANGED notRecord

\* _validate_effect(ev), after its sleep of UI_CHANGE_DETECTION_DELAY: after =
\* _capture_ui_state(); ev.ui_state_after = after, the first of three stores
\* on an event that is already in the list.
MouseValidate ==
    /\ rc_main # "exited"
    /\ rc_mouse.pc = "validate"
    /\ \E h \in HashValues :
          rc_events' = [rc_events EXCEPT ![rc_mouse.idx].ui_state_after = h]
    /\ rc_mouse' = [pc |-> "validated", idx |-> rc_mouse.idx]
    /\ UNCHANGED <<rc_main, rc_running, rc_abort, rc_now, rc_persisted, rc_key,
                   rc_calls, rc_save>>
    /\ UNCHANGED notRecord

\* _validate_effect: changed = _detect_ui_changes(before hash, after hash);
\* ev.action_validated = changed.
MouseStoreValidated ==
    /\ rc_main # "exited"
    /\ rc_mouse.pc = "validated"
    /\ LET ev      == rc_events[rc_mouse.idx]
           changed == detect_ui_changes(ev.ui_state_before, ev.ui_state_after)
       IN  /\ rc_events' = [rc_events EXCEPT ![rc_mouse.idx].action_validated = changed]
           /\ rc_mouse' = [pc |-> "confidence", idx |-> rc_mouse.idx, changed |-> changed]
    /\ UNCHANGED <<rc_main, rc_running, rc_abort, rc_now, rc_persisted, rc_key,
                   rc_calls, rc_save>>
    /\ UNCHANGED notRecord

\* _validate_effect: ev.validation_confidence = 1.0 if changed else 0.0 (1.0
\* is 100).
MouseStoreConfidence ==
    /\ rc_main # "exited"
    /\ rc_mouse.pc = "confidence"
    /\ rc_events' = [rc_events EXCEPT ![rc_mouse.idx].validation_confidence =
                        IF rc_mouse.changed THEN 100 ELSE 0]
    /\ rc_mouse' = NoHandler
    /\ UNCHANGED <<rc_main, rc_running, rc_abort, rc_now, rc_persisted, rc_key,
                   rc_calls, rc_save>>
    /\ UNCHANGED notRecord

\* on_press / on_release begin on the keyboard thread: the guard.  Nothing
\* orders the statements of the callback with those of the other threads.
KeyEnter ==
    /\ ListenersAlive
    /\ rc_key.pc = "idle"
    /\ rc_calls < MaxCalls
    /\ rc_calls' = rc_calls + 1
    /\ \E kind \in {"key_press", "key_release"} :
          IF (~rc_running) \/ rc_abort
          THEN rc_key' = NoHandler
          ELSE rc_key' = [pc |-> "stamp", kind |-> kind]
    /\ UNCHANGED <<rc_main, rc_running, rc_abort, rc_now, rc_events, rc_persisted,
                   rc_mouse, rc_save>>
    /\ UNCHANGED notRecord

\* EnhancedEvent(timestamp=self._ts(), ...): the argument of the append.
KeyStamp ==
    /\ rc_main # "exited"
    /\ rc_key.pc = "stamp"
    /\ rc_key' = [pc |-> "append", ev |-> KeyEvent(rc_now, rc_key.kind)]
    /\ UNCHANGED <<rc_main, rc_running, rc_abort, rc_now, rc_events, rc_persisted,
                   rc_mouse, rc_calls, rc_save>>
    /\ UNCHANGED notRecord

\* self.events.append(...).
KeyAppend ==
    /\ rc_main # "exited"
    /\ rc_key.pc = "append"
    /\ rc_events' = Append(rc_events, rc_key.ev)
    /\ rc_key' = NoHandler
    /\ UNCHANGED <<rc_main, rc_running, rc_abort, rc_now, rc_persisted, rc_mouse,
                   rc_calls, rc_save>>
    /\ UNCHANGED notRecord

RecordNext ==
    \/ RecStart \/ RecStop \/ RecExit \/ RecAbort \/ RecTick
    \/ RecSaveBegin \/ SaveReadAfter \/ SaveReadValidated \/ SaveReadConfidence
    \/ RecSave
    \/ MouseEnter \/ MouseStamp \/ MouseAppend
    \/ MouseValidate \/ MouseStoreValidated \/ MouseStoreConfidence
    \/ KeyEnter \/ KeyStamp \/ KeyAppend

\* C7: in every state of a recording session the event log is ordered by
\* timestamp, also when a key event is appended while a pointer event whose
\* timestamp is already taken is still extracting its regions.
C7_LogOrderedByTimestamp ==
    \A i \in 1 .. Len(rc_events) : \A j \in 1 .. Len(rc_events) :
        i < j => rc_events[i].timestamp <= rc_events[j].timestamp

\* C26: capture goes Idle -> Recording -> Stopped; an event is appended to the
\* log only in state Recording; a handler that begins before start(),
\* after stop() has cleared running or after the abort signal goes no further
\* than its guard; and a stopped recorder never records again.
C26_AppendOnlyWhileRecording ==
    /\ [][(Len(rc_events') > Len(rc_events)) => (rc_main = "recording")]_vars
    /\ [][(rc_mouse.pc = "idle" /\ rc_mouse'.pc = "capture")
            => (rc_main = "recording" /\ rc_running /\ ~rc_abort)]_vars
    /\ [][(rc_key.pc = "idle" /\ rc_key'.pc = "stamp")
            => (rc_main = "recording" /\ rc_running /\ ~rc_abort)]_vars
    /\ [][(rc_main \in {"stopped", "saving", "saved", "exited"})
            => (rc_main' # "recording")]_vars

\* The hash of a UI state as the recording holds it: an event that has no
\* UI state (None) has no hash.
HashOf(ui_state) == IF ui_state = Unset THEN "none" ELSE ui_state

\* C20: for every event of a finished recording, action_validated is true if
\* and only if the before-hash is not equal to the after-hash, an absent hash
\* differing from a present one, and validation_confidence is 1.0 exactly
\* when action_validated is true and 0.0 otherwise.
C20_ValidatedIffHashesDiffer ==
    rc_main \in {"saved", "exited"} =>
        \A i \in 1 .. Len(rc_persisted) :
            /\ rc_persisted[i].action_validated <=>
                  HashOf(rc_persisted[i].ui_state_before)
                      # HashOf(rc_persisted[i].ui_state_after)
            /\ rc_persisted[i].validation_confidence =
                  IF rc_persisted[i].action_validated THEN 100 ELSE 0

\* C8: once the recording is saved, neither the event list nor any event of it
\* changes: what was written equals the recording in memory.
C8_SavedEqualsMemory ==
    rc_main \in {"saved", "exited"} => rc_persisted = rc_events

---------------------------------------------------------------------------
(* The replay loops: replay_script (simmy.py) and replay (ditto.py).        *)
(* Time passes while the loop sleeps and while an action is resolved and    *)
(* executed; the abort hotkey can be pressed at any moment, also while an   *)
(* action is in progress.                                                   *)

\* The longest script and the long gap between two events (ticks).
MaxEvents == 2

MaxGap == 25

\* The times the target window is found behind another window during the
\* waits of a run.
MaxFront == 1

\* The tick, in milliseconds: the sleeps of the code are multiples of it.
TICK_MS == 10

\* The slice of ditto's wait loop, the sleep after a click of
\* _intelligent_click and POST_SCROLL_WAIT, in milliseconds.
SLICE_MS == 50

CLICK_SLEEP_MS == 50

POST_SCROLL_WAIT_MS == 120

\* The sleeps of ditto's bring_to_front, in milliseconds: after the window
\* was activated, and between minimize and restore when activate() raised.
FOCUS_SETTLE_MS == 120

MINIMIZE_SLEEP_MS == 50

SliceTicks == SLICE_MS \div TICK_MS

\* 200 ms, in ticks.
AbortLatencyTicks == 200 \div TICK_MS

\* bring_to_front is not in progress and has not been called.
NoFront == [left |-> 0, calls |-> 0]

\* The gaps between consecutive recorded events.
GapChoices == {0, SliceTicks, MaxGap}

\* The time the executor of an action sleeps: _replay_key_event and ditto's
\* actions do not sleep; _intelligent_click sleeps after the click that went
\* through and _perform_scroll_at after the scroll; an action that fails or
\* raises has not reached its sleep.
ActionSleep(type, ok) ==
    CASE type = "mouse_click" /\ ok  -> CLICK_SLEEP_MS \div TICK_MS
      [] type = "mouse_scroll" /\ ok -> POST_SCROLL_WAIT_MS \div TICK_MS
      [] OTHER                       -> 0

\* The time an action takes: its sleep (the calls of pyautogui return at
\* once).
ActDurations(type, ok) == {ActionSleep(type, ok)}

\* ditto's speed argument (replay_script has none: a factor of 1).
Speeds == {1, 2}

\* action_type values of a simmy recording (ActionType); replay_script has a
\* branch for the first four (the two key types share one) and ignores
\* mouse_move.
SimmyTypes == {"key_press", "key_release", "mouse_click", "mouse_scroll", "mouse_move"}

\* type values of a ditto recording; replay has a branch for each.
DittoTypes == {"move", "key_press"}

RECURSIVE SumGaps(_, _)
SumGaps(g, k) == IF k = 0 THEN 0 ELSE g[k] + SumGaps(g, k - 1)

\* The scripts: timestamps are non-decreasing multiples of the speed, so that
\* timestamp / speed is a whole number of ticks.
Scripts(types, speed) ==
    UNION { { [k \in 1 .. n |-> [t |-> speed * SumGaps(g, k), type |-> ty[k]]] :
                g \in [1 .. n -> GapChoices], ty \in [1 .. n -> types] } :
            n \in 1 .. MaxEvents }

NoAct == [idx |-> 0, ready |-> 0, at |-> 0, aborted |-> FALSE, ok |-> TRUE]

ReplayIdle ==
    /\ rp_prog = "none"
    /\ rp_pc = "off"
    /\ rp_speed = 1
    /\ rp_events = << >>
    /\ rp_i = 1
    /\ rp_now = 0
    /\ rp_last = 0
    /\ rp_left = 0
    /\ rp_front = NoFront
    /\ rp_ready = 0
    /\ rp_abort = FALSE
    /\ rp_abort_age = 0
    /\ rp_success = 0
    /\ rp_fail = 0
    /\ rp_act = NoAct
    /\ rp_result = FALSE

\* The state at the first iteration of the loop: start_t = now, last_ts = 0,
\* success = fail = 0.
ReplayInit ==
    /\ rp_prog \in {"simmy", "ditto"}
    /\ rp_pc = "head"
    /\ rp_speed \in (IF rp_prog = "ditto" THEN Speeds ELSE {1})
    /\ rp_events \in Scripts(IF rp_prog = "ditto" THEN DittoTypes ELSE SimmyTypes,
                             rp_speed)
    /\ rp_i = 1
    /\ rp_now = 0
    /\ rp_last = 0
    /\ rp_left = 0
    /\ rp_front = NoFront
    /\ rp_ready = 0
    /\ rp_abort = FALSE
    /\ rp_abort_age = 0
    /\ rp_success = 0
    /\ rp_fail = 0
    /\ rp_act = NoAct
    /\ rp_result = FALSE

\* d ticks pass: the clock, and the age of the abort signal if it is set.
Elapse(d) ==
    /\ rp_now' = rp_now + d
    /\ rp_abort_age' = IF rp_abort THEN Min(rp_abort_age + d, AbortLatencyTicks)
                       ELSE rp_abort_age

\* The abort hotkey's listener thread: abort_event.set() / stop_event.set().
SetAbort ==
    /\ rp_pc \in {"head", "sleep", "wait", "front", "slice", "act"}
    /\ ~rp_abort
    /\ rp_abort' = TRUE
    /\ rp_abort_age' = 0
    /\ UNCHANGED <<rp_prog, rp_pc, rp_speed, rp_events, rp_i, rp_now, rp_last,
                   rp_left, rp_ready, rp_success, rp_fail, rp_act, rp_result>>
    /\ UNCHANGED rp_front
    /\ UNCHANGED notReplay

\* The action the loop is about to execute: event rp_i, reached at ready,
\* started now, with the abort signal as it is now; ok tells whether the
\* action went through (FALSE: it failed or raised).
ActNow(ready, ok) ==
    [idx |-> rp_i, ready |-> ready, at |-> rp_now, aborted |-> rp_abort, ok |-> ok]

\* ---- simmy.py replay_script ----

\* wait = max(0.0, t - last_ts)
SimmyWait == Max(0, rp_events[rp_i].t - rp_last)

\* The time bring_to_front takes when a window has the title: the sleep that
\* lets the focus settle, and before it the sleep between minimize and
\* restore when activate() raised.  With no such window it returns at once.
FrontSleeps ==
    {FOCUS_SETTLE_MS \div TICK_MS,
     (MINIMIZE_SLEEP_MS + FOCUS_SETTLE_MS) \div TICK_MS}

\* The time that passes in one step of a sleep.
TickStep(left) == Min(SliceTicks, left)

\* Time passes while an action is in progress.
ActTick ==
    /\ rp_pc = "act"
    /\ rp_left > 0
    /\ Elapse(TickStep(rp_left))
    /\ rp_left' = rp_left - TickStep(rp_left)
    /\ UNCHANGED <<rp_prog, rp_pc, rp_speed, rp_events, rp_i, rp_last, rp_ready,
                   rp_abort, rp_success, rp_fail, rp_act, rp_result>>
    /\ UNCHANGED rp_front
    /\ UNCHANGED notReplay

\* The loop body after the sleep: last_ts = t, then the key, scroll or click
\* branch begins (ok: whether it will go through, FALSE when it fails or
\* raises); any other action_type does nothing and the loop goes to the next
\* event.
SimmyExecute(ready) ==
    LET ev == rp_events[rp_i] IN
    /\ rp_last' = ev.t
    /\ rp_ready' = ready
    /\ IF ev.type \in {"key_press", "key_release", "mouse_click", "mouse_scroll"}
       THEN /\ \E ok \in BOOLEAN :
                 /\ rp_act' = ActNow(ready, ok)
                 /\ rp_left' \in ActDurations(ev.type, ok)
            /\ rp_pc' = "act"
            /\ UNCHANGED rp_i
       ELSE /\ rp_i' = rp_i + 1
            /\ rp_pc' = "head"
            /\ rp_left' = 0
            /\ UNCHANGED rp_act
    /\ UNCHANGED <<rp_prog, rp_speed, rp_events, rp_now, rp_abort, rp_abort_age,
                   rp_success, rp_fail, rp_result>>
    /\ UNCHANGED rp_front
    /\ UNCHANGED notReplay

\* The branch ends: success or fail is incremented (an exception counts a
\* failure) and the loop goes to the next event.
SimmyActEnd ==
    /\ rp_prog = "simmy" /\ rp_pc = "act"
    /\ rp_left = 0
    /\ rp_success' = IF rp_act.ok THEN rp_success + 1 ELSE rp_success
    /\ rp_fail' = IF rp_act.ok THEN rp_fail ELSE rp_fail + 1
    /\ rp_i' = rp_i + 1
    /\ rp_pc' = "head"
    /\ UNCHANGED <<rp_prog, rp_speed, rp_events, rp_now, rp_last, rp_left, rp_ready,
                   rp_abort, rp_abort_age, rp_act, rp_result>>
    /\ UNCHANGED rp_front
    /\ UNCHANGED notReplay

\* An abort that is itself counted as a failure.
SimmyAbortBreakCountsFail ==
    /\ rp_prog = "simmy" /\ rp_pc = "head"
    /\ rp_i <= Len(rp_events)
    /\ rp_abort
    /\ rp_pc' = "done"
    /\ rp_fail' = rp_fail + 1
    /\ rp_result' = FALSE
    /\ UNCHANGED <<rp_prog, rp_speed, rp_events, rp_i, rp_now, rp_last, rp_left,
                   rp_ready, rp_abort, rp_abort_age, rp_success, rp_act>>
    /\ UNCHANGED rp_front
    /\ UNCHANGED notReplay

\* An abort that makes the run return False whatever the counters.
SimmyAbortBreakReturnsFalse ==
    /\ rp_prog = "simmy" /\ rp_pc = "head"
    /\ rp_i <= Len(rp_events)
    /\ rp_abort
    /\ rp_pc' = "done"
    /\ rp_result' = FALSE
    /\ UNCHANGED <<rp_prog, rp_speed, rp_events, rp_i, rp_now, rp_last, rp_left,
                   rp_ready, rp_abort, rp_abort_age, rp_success, rp_fail, rp_act>>
    /\ UNCHANGED rp_front
    /\ UNCHANGED notReplay

\* The loop head finds abort_event set: break, then return fail == 0.
SimmyAbortBreak ==
    /\ rp_prog = "simmy" /\ rp_pc = "head"
    /\ rp_i <= Len(rp_events)
    /\ rp_abort
    /\ rp_pc' = "done"
    /\ rp_result' = (rp_fail = 0)
    /\ UNCHANGED <<rp_prog, rp_speed, rp_events, rp_i, rp_now, rp_last, rp_left,
                   rp_ready, rp_abort, rp_abort_age, rp_success, rp_fail, rp_act>>
    /\ UNCHANGED rp_front
    /\ UNCHANGED notReplay

\* The events are exhausted: return fail == 0.
SimmyLoopEnd ==
    /\ rp_prog = "simmy" /\ rp_pc = "head"
    /\ rp_i > Len(rp_events)
    /\ rp_pc' = "done"
    /\ rp_result' = (rp_fail = 0)
    /\ UNCHANGED <<rp_prog, rp_speed, rp_events, rp_i, rp_now, rp_last, rp_left,
                   rp_ready, rp_abort, rp_abort_age, rp_success, rp_fail, rp_act>>
    /\ UNCHANGED rp_front
    /\ UNCHANGED notReplay

\* The loop head with abort_event clear and wait > 0: time.sleep(wait) begins.
SimmySleep ==
    /\ rp_prog = "simmy" /\ rp_pc = "head"
    /\ rp_i <= Len(rp_events)
    /\ ~rp_abort
    /\ SimmyWait > 0
    /\ rp_pc' = "sleep"
    /\ rp_left' = SimmyWait
    /\ rp_ready' = rp_now
    /\ UNCHANGED <<rp_prog, rp_speed, rp_events, rp_i, rp_now, rp_last, rp_abort,
                   rp_abort_age, rp_success, rp_fail, rp_act, rp_result>>
    /\ UNCHANGED rp_front
    /\ UNCHANGED notReplay

\* Time passes in time.sleep(wait): nothing is read while it lasts.
SimmySleepTick ==
    /\ rp_prog = "simmy" /\ rp_pc = "sleep"
    /\ rp_left > 0
    /\ rp_left' = rp_left - TickStep(rp_left)
    /\ Elapse(TickStep(rp_left))
    /\ UNCHANGED <<rp_prog, rp_pc, rp_speed, rp_events, rp_i, rp_last, rp_ready,
                   rp_abort, rp_success, rp_fail, rp_act, rp_result>>
    /\ UNCHANGED rp_front
    /\ UNCHANGED notReplay

\* time.sleep(wait) returns: the body goes on without reading abort_event.
SimmyWake ==
    /\ rp_prog = "simmy" /\ rp_pc = "sleep"
    /\ rp_left = 0
    /\ SimmyExecute(rp_ready)

\* The loop head with abort_event clear and wait = 0: the body runs at once.
SimmyNoWait ==
    /\ rp_prog = "simmy" /\ rp_pc = "head"
    /\ rp_i <= Len(rp_events)
    /\ ~rp_abort
    /\ SimmyWait = 0
    /\ SimmyExecute(rp_now)

\* ---- ditto.py replay ----

\* t = ev.get("t", 0) / float(speed)
DittoTime == rp_events[rp_i].t \div rp_speed

\* wait = t - last_t
DittoWait == DittoTime - rp_last

\* The loop body after the wait loop: last_t = t; the event is skipped if
\* the target window is not in the foreground, else its action begins.
DittoExecute(ready) ==
    /\ rp_last' = DittoTime
    /\ rp_ready' = ready
    /\ \E is_window_foreground \in BOOLEAN :
         IF is_window_foreground
         THEN /\ \E ok \in BOOLEAN :
                   /\ rp_act' = ActNow(ready, ok)
                   /\ rp_left' \in ActDurations(rp_events[rp_i].type, ok)
              /\ rp_pc' = "act"
              /\ UNCHANGED rp_i
         ELSE /\ rp_i' = rp_i + 1
              /\ rp_pc' = "head"
              /\ rp_left' = 0
              /\ UNCHANGED rp_act
    /\ UNCHANGED <<rp_prog, rp_speed, rp_events, rp_now, rp_abort, rp_abort_age,
                   rp_success, rp_fail, rp_result>>
    /\ UNCHANGED rp_front
    /\ UNCHANGED notReplay

\* The action ends (an exception is printed and swallowed: ditto keeps no
\* counters) and the loop goes to the next event.
DittoActEnd ==
    /\ rp_prog = "ditto" /\ rp_pc = "act"
    /\ rp_left = 0
    /\ rp_i' = rp_i + 1
    /\ rp_pc' = "head"
    /\ UNCHANGED <<rp_prog, rp_speed, rp_events, rp_now, rp_last, rp_left, rp_ready,
                   rp_abort, rp_abort_age, rp_success, rp_fail, rp_act, rp_result>>
    /\ UNCHANGED rp_front
    /\ UNCHANGED notReplay

\* The loop head finds stop_event set: break.
DittoStopBreak ==
    /\ rp_prog = "ditto" /\ rp_pc = "head"
    /\ rp_i <= Len(rp_events)
    /\ rp_abort
    /\ rp_pc' = "done"
    /\ UNCHANGED <<rp_prog, rp_speed, rp_events, rp_i, rp_now, rp_last, rp_left,
                   rp_ready, rp_abort, rp_abort_age, rp_success, rp_fail, rp_act,
                   rp_result>>
    /\ UNCHANGED rp_front
    /\ UNCHANGED notReplay

\* The events are exhausted.
DittoLoopEnd ==
    /\ rp_prog = "ditto" /\ rp_pc = "head"
    /\ rp_i > Len(rp_events)
    /\ rp_pc' = "done"
    /\ UNCHANGED <<rp_prog, rp_speed, rp_events, rp_i, rp_now, rp_last, rp_left,
                   rp_ready, rp_abort, rp_abort_age, rp_success, rp_fail, rp_act,
                   rp_result>>
    /\ UNCHANGED rp_front
    /\ UNCHANGED notReplay

\* The loop head with stop_event clear and wait > 0: waited = 0.0, the wait
\* loop begins (rp_left is wait - waited).
DittoBeginWait ==
    /\ rp_prog = "ditto" /\ rp_pc = "head"
    /\ rp_i <= Len(rp_events)
    /\ ~rp_abort
    /\ DittoWait > 0
    /\ rp_pc' = "wait"
    /\ rp_left' = DittoWait
    /\ rp_ready' = rp_now
    /\ UNCHANGED <<rp_prog, rp_speed, rp_events, rp_i, rp_now, rp_last, rp_abort,
                   rp_abort_age, rp_success, rp_fail, rp_act, rp_result>>
    /\ UNCHANGED rp_front
    /\ UNCHANGED notReplay

\* The wait loop's head with waited < wait and stop_event clear: the slice of
\* step = min(0.05, wait - waited) begins at once when the target is in the
\* foreground or no window has its title; else bring_to_front first brings
\* the window to the front.
DittoWaitCheck ==
    /\ rp_prog = "ditto" /\ rp_pc = "wait"
    /\ rp_left > 0
    /\ ~rp_abort
    /\ \/ /\ rp_pc' = "slice"
          /\ UNCHANGED rp_front
       \/ /\ rp_front.calls < MaxFront
          /\ rp_pc' = "front"
          /\ \E d \in FrontSleeps :
                rp_front' = [left |-> d, calls |-> rp_front.calls + 1]
    /\ UNCHANGED <<rp_prog, rp_speed, rp_events, rp_i, rp_now, rp_last, rp_left,
                   rp_ready, rp_abort, rp_abort_age, rp_success, rp_fail, rp_act,
                   rp_result>>
    /\ UNCHANGED notReplay

\* Time passes in the sleeps of bring_to_front; it is not added to waited.
DittoFrontTick ==
    /\ rp_prog = "ditto" /\ rp_pc = "front"
    /\ rp_front.left > 0
    /\ Elapse(TickStep(rp_front.left))
    /\ rp_front' = [rp_front EXCEPT !.left = rp_front.left - TickStep(rp_front.left)]
    /\ UNCHANGED <<rp_prog, rp_pc, rp_speed, rp_events, rp_i, rp_last, rp_left,
                   rp_ready, rp_abort, rp_success, rp_fail, rp_act, rp_result>>
    /\ UNCHANGED notReplay

\* bring_to_front returns and the slice begins.
DittoFrontEnd ==
    /\ rp_prog = "ditto" /\ rp_pc = "front"
    /\ rp_front.left = 0
    /\ rp_pc' = "slice"
    /\ UNCHANGED <<rp_prog, rp_speed, rp_events, rp_i, rp_now, rp_last, rp_left,
                   rp_front, rp_ready, rp_abort, rp_abort_age, rp_success, rp_fail,
                   rp_act, rp_result>>
    /\ UNCHANGED notReplay

\* time.sleep(step); waited += step
DittoSlice ==
    /\ rp_prog = "ditto" /\ rp_pc = "slice"
    /\ LET step == Min(SliceTicks, rp_left) IN
         /\ Elapse(step)
         /\ rp_left' = rp_left - step
    /\ rp_pc' = "wait"
    /\ UNCHANGED <<rp_prog, rp_speed, rp_events, rp_i, rp_last, rp_ready, rp_abort,
                   rp_success, rp_fail, rp_act, rp_result>>
    /\ UNCHANGED rp_front
    /\ UNCHANGED notReplay

\* The wait loop ends, by waited >= wait or by the break on stop_event: in
\* both cases control falls to the rest of the loop body.
DittoWaitEnd ==
    /\ rp_prog = "ditto" /\ rp_pc = "wait"
    /\ rp_left = 0 \/ rp_abort
    /\ DittoExecute(rp_ready)

\* The loop head with stop_event clear and wait <= 0: the body runs at once.
DittoNoWait ==
    /\ rp_prog = "ditto" /\ rp_pc = "head"
    /\ rp_i <= Len(rp_events)
    /\ ~rp_abort
    /\ DittoWait <= 0
    /\ DittoExecute(rp_now)

ReplayNext ==
    \/ SetAbort
    \/ ActTick
    \/ SimmyActEnd
    \/ DittoActEnd
    \/ SimmyAbortBreak
    \/ SimmyLoopEnd
    \/ SimmySleep
    \/ SimmySleepTick
    \/ SimmyWake
    \/ SimmyNoWait
    \/ DittoStopBreak
    \/ DittoLoopEnd
    \/ DittoBeginWait
    \/ DittoWaitCheck
    \/ DittoFrontTick
    \/ DittoFrontEnd
    \/ DittoSlice
    \/ DittoWaitEnd
    \/ DittoNoWait

\* The time at which event i is scheduled: timestamp / speed factor.
Scheduled(i) == rp_events[i].t \div rp_speed

\* C1: no event action is executed once the abort signal has been set: the
\* last action executed started with the signal clear.
C1_NoActionAfterAbort ==
    rp_act.idx > 0 => ~rp_act.aborted

\* C14: a failure of one event's action is never fatal: the step that ends
\* an action which failed or raised counts exactly one failure, no success,
\* and puts the loop at the head of the next event.
C14_FailureCountedOnce ==
    [][(rp_pc = "act" /\ rp_pc' # "act" /\ ~rp_act.ok) =>
          /\ rp_fail' = rp_fail + 1
          /\ rp_success' = rp_success
          /\ rp_i' = rp_i + 1
          /\ rp_pc' = "head"]_vars

\* C23: in replay_script success + fail never exceeds the number of events the
\* loop has gone through; the step that ends a click, scroll or key action
\* adds one to exactly one of the two counters, and no other step changes
\* them: the break on abort leaves them as the events already attempted made
\* them, and the events from the one the loop stopped at onward add nothing.
C23_CountersMatchAttempts ==
    /\ [](rp_prog = "simmy" => rp_success + rp_fail <= rp_i - 1)
    /\ [][rp_prog = "simmy" =>
            IF rp_pc = "act" /\ rp_pc' # "act"
            THEN \/ rp_success' = rp_success + 1 /\ rp_fail' = rp_fail
                 \/ rp_success' = rp_success /\ rp_fail' = rp_fail + 1
            ELSE rp_success' = rp_success /\ rp_fail' = rp_fail]_vars

\* C23's case: replay_script ended on abort with events left, after at least
\* one event was attempted and counted.
C23_Witness ==
    /\ rp_prog = "simmy"
    /\ rp_pc = "done"
    /\ rp_abort
    /\ rp_i <= Len(rp_events)
    /\ rp_success + rp_fail = 1
    /\ rp_act.idx = 1

\* C29: replay_script returns fail == 0, whether the loop ended because the
\* events were exhausted or because the abort signal was observed.
C29_ResultIsNoFailure ==
    (rp_prog = "simmy" /\ rp_pc = "done") => rp_result = (rp_fail = 0)

\* C29's case: a run that ended on abort, with events left and no failure,
\* returned True.
C29_Witness ==
    /\ rp_prog = "simmy"
    /\ rp_pc = "done"
    /\ rp_abort
    /\ rp_i <= Len(rp_events)
    /\ rp_fail = 0
    /\ rp_result

\* C9: the wait is never one blocking sleep: while the loop sleeps in a wait,
\* and when it reads the signal between two slices, an abort signal that is
\* set has been set for less than 200 ms.
C9_AbortObservedWithin200ms ==
    /\ (rp_pc \in {"sleep", "slice"} /\ rp_left > 0 /\ rp_abort)
          => rp_abort_age < AbortLatencyTicks
    /\ (rp_pc = "front" /\ rp_front.left > 0 /\ rp_abort)
          => rp_abort_age < AbortLatencyTicks
    /\ (rp_pc = "wait" /\ rp_abort)
          => rp_abort_age < AbortLatencyTicks

\* C10: an event whose scheduled time was not yet past when the loop reached
\* it starts exactly at timestamp / speed factor after the start of replay
\* (in a replay that is not being aborted).
C10_StartsAtScheduledTime ==
    (rp_act.idx > 0 /\ ~rp_act.aborted /\ rp_act.ready <= Scheduled(rp_act.idx))
        => rp_act.at = Scheduled(rp_act.idx)

---------------------------------------------------------------------------
(* _translate_coord on rectangles of positive width and height: one call,   *)
(* and the call back with the rectangles exchanged.                         *)

RtMaxCoord == 4

RtMaxSize == 4

RtPoints == (0 .. RtMaxCoord) \X (0 .. RtMaxCoord)

RtRects == {0, MaxOrigin} \X {0, MaxOrigin} \X (1 .. RtMaxSize) \X (1 .. RtMaxSize)

\* A window recorded at 400 x 800 and replayed at twice the size.
ScenarioInput == << <<100, 200>>, <<0, 0, 400, 800>>, <<0, 0, 800, 1600>> >>

RtInputs == (RtPoints \X RtRects \X RtRects) \cup {ScenarioInput}

RoundTripIdle ==
    /\ rt_pc = "idle"
    /\ rt_pt = NoPoint
    /\ rt_r1 = <<0, 0, 0, 0>>
    /\ rt_r2 = <<0, 0, 0, 0>>
    /\ rt_mid = NoPoint
    /\ rt_out = NoPoint

RoundTripInit ==
    /\ rt_pc = "call"
    /\ \E inp \in RtInputs :
         /\ rt_pt = inp[1]
         /\ rt_r1 = inp[2]
         /\ rt_r2 = inp[3]
    /\ rt_mid = NoPoint
    /\ rt_out = NoPoint

\* q = _translate_coord(p, R1, R2)
RtForward ==
    /\ rt_pc = "call"
    /\ rt_mid' = translate_coord(rt_pt, rt_r1, rt_r2)
    /\ rt_pc' = "back"
    /\ UNCHANGED <<rt_pt, rt_r1, rt_r2, rt_out>>
    /\ UNCHANGED notRoundTrip

\* _translate_coord(q, R2, R1)
RtBack ==
    /\ rt_pc = "back"
    /\ rt_out' = translate_coord(rt_mid, rt_r2, rt_r1)
    /\ rt_pc' = "done"
    /\ UNCHANGED <<rt_pt, rt_r1, rt_r2, rt_mid>>
    /\ UNCHANGED notRoundTrip

RoundTripNext == RtForward \/ RtBack

\* The largest error of a round trip on one axis, from a rectangle of size
\* w1 to one of size w2 and back: half a pixel of the first rounding, scaled
\* by w1 / w2, then rounded.
RoundTripTolerance(w1, w2) == (w1 + w2) \div (2 * w2)

\* C11 (as amended): the round trip differs from p, on each axis, by at most
\* (w1 + w2) \div (2 * w2) px, where w1 and w2 are the sizes of R1 and R2 on
\* that axis: it is exact when R2 is larger than R1, and within 1 px when R1
\* is less than three times the size of R2.
C11_RoundTripBound ==
    rt_pc = "done" =>
        \A a \in {1, 2} :
            Abs(rt_out[a] - rt_pt[a]) <= RoundTripTolerance(rt_r1[a + 2], rt_r2[a + 2])

\* A round trip through a rectangle four times smaller that loses 2 px.
C11_Witness ==
    /\ rt_pc = "done"
    /\ rt_r1[3] >= 4 * rt_r2[3]
    /\ Abs(rt_out[1] - rt_pt[1]) = 2

\* C11 (as stated): the round trip differs from p by at most 1 px on each
\* axis, also when R2 is much smaller than R1.
C11_Original_Within1px ==
    rt_pc = "done" =>
        \A a \in {1, 2} : Abs(rt_out[a] - rt_pt[a]) <= 1

\* C18: for rectangles of positive width and height the first call returns,
\* on each axis, an integer nearest to
\* current origin + (point - recorded origin) * current size / recorded size;
\* the point (100, 200) of a window recorded at (0, 0, 400, 800) maps to
\* (200, 400) in the window (0, 0, 800, 1600).
C18_NearestInteger ==
    rt_pc \in {"back", "done"} =>
        /\ \A a \in {1, 2} :
             LET exact_num == rt_r2[a] * rt_r1[a + 2]
                                + (rt_pt[a] - rt_r1[a]) * rt_r2[a + 2]
             IN  2 * Abs(rt_mid[a] * rt_r1[a + 2] - exact_num) <= rt_r1[a + 2]
        /\ <<rt_pt, rt_r1, rt_r2>> = ScenarioInput => rt_mid = <<200, 400>>

\* The scenario's point has been translated to (200, 400).
C18_Witness ==
    /\ rt_pc = "back"
    /\ <<rt_pt, rt_r1, rt_r2>> = ScenarioInput
    /\ rt_mid = <<200, 400>>

---------------------------------------------------------------------------
(* The body of replay_script's loop for one event, after the sleep: target  *)
(* resolution (_try_find_click_target, then _translate_coord as fallback)   *)
(* and the operation of the Action Executor (_replay_key_event,             *)
(* _perform_scroll_at, _intelligent_click), with the counters.              *)

\* The action_type values a recording holds.
StepTypes == SimmyTypes

\* What _try_find_click_target returns: None (no frame, no stored region, no
\* backend, or nothing matched) or the point of a hit.
Absent(reason) == [found |-> FALSE, reason |-> reason, pt |-> NoPoint]

Hit(pt) == [found |-> TRUE, reason |-> "hit", pt |-> pt]

AbsentReasons == {"no_frame", "no_regions", "no_backends", "no_match"}

StepTargets ==
    { Absent(r) : r \in AbsentReasons } \cup { Hit(<<0, 0>>), Hit(<<MaxCoord, 1>>) }

\* rec_win = (0, 0, screen_w, screen_h); win_rect = the Simulator window.
StepRecWins == { <<0, 0, w, w>> : w \in 1 .. MaxSize }

StepWinRects == { <<MaxOrigin, MaxOrigin, w, w>> : w \in 1 .. MaxSize }

StepIdle ==
    /\ st_pc = "idle"
    /\ st_ev = [action_type |-> "none", x |-> 0, y |-> 0]
    /\ st_target = Absent("no_frame")
    /\ st_platform_ok = TRUE
    /\ st_rec_win = <<0, 0, 0, 0>>
    /\ st_win_rect = <<0, 0, 0, 0>>
    /\ st_calls = << >>
    /\ st_at = NoPoint
    /\ st_exec = "not_called"
    /\ st_success = 0
    /\ st_fail = 0

StepInit ==
    /\ st_pc = "body"
    /\ st_ev \in [action_type : StepTypes, x : 0 .. MaxCoord, y : 0 .. MaxCoord]
    /\ st_target \in StepTargets
    /\ st_platform_ok \in BOOLEAN
    /\ st_rec_win \in StepRecWins
    /\ st_win_rect \in StepWinRects
    /\ st_calls = << >>
    /\ st_at = NoPoint
    /\ st_exec = "not_called"
    /\ st_success = 0
    /\ st_fail = 0

\* A fallback taken whatever the cascade returned.
AlwaysFallback(target) == TRUE

\* if not target: (a point is a non-empty tuple, so only None is falsy)
NeedsFallback(target) == ~target.found

\* The key branch: ok = _replay_key_event(ev), which catches every exception
\* of pyautogui and returns False; then the counters.
StepKey ==
    /\ st_pc = "body"
    /\ st_ev.action_type \in {"key_press", "key_release"}
    /\ st_calls' = Append(st_calls, "_replay_key_event")
    /\ st_exec' = IF st_platform_ok THEN "True" ELSE "False"
    /\ st_success' = IF st_platform_ok THEN st_success + 1 ELSE st_success
    /\ st_fail' = IF st_platform_ok THEN st_fail ELSE st_fail + 1
    /\ st_pc' = "done"
    /\ UNCHANGED <<st_ev, st_target, st_platform_ok, st_rec_win, st_win_rect, st_at>>
    /\ UNCHANGED notStep

\* The start of the scroll and click branches: target =
\* _try_find_click_target(ev, script_dir), then _translate_coord if not target.
StepResolve ==
    /\ st_pc = "body"
    /\ st_ev.action_type \in {"mouse_scroll", "mouse_click"}
    /\ IF NeedsFallback(st_target)
       THEN /\ st_calls' = st_calls \o <<"_try_find_click_target", "_translate_coord">>
            /\ st_at' = translate_coord(<<st_ev.x, st_ev.y>>, st_rec_win, st_win_rect)
       ELSE /\ st_calls' = Append(st_calls, "_try_find_click_target")
            /\ st_at' = st_target.pt
    /\ st_pc' = "act"
    /\ UNCHANGED <<st_ev, st_target, st_platform_ok, st_rec_win, st_win_rect,
                   st_exec, st_success, st_fail>>
    /\ UNCHANGED notStep

\* _perform_scroll_at(nx, ny, dy) has no try block: it returns None, or the
\* exception of pyautogui leaves it and reaches replay_script's except clause
\* (fail += 1).
StepScroll ==
    /\ st_pc = "act"
    /\ st_ev.action_type = "mouse_scroll"
    /\ st_calls' = Append(st_calls, "_perform_scroll_at")
    /\ st_exec' = IF st_platform_ok THEN "None" ELSE "raised"
    /\ st_success' = IF st_platform_ok THEN st_success + 1 ELSE st_success
    /\ st_fail' = IF st_platform_ok THEN st_fail ELSE st_fail + 1
    /\ st_pc' = "done"
    /\ UNCHANGED <<st_ev, st_target, st_platform_ok, st_rec_win, st_win_rect, st_at>>
    /\ UNCHANGED notStep

\* ok = _intelligent_click(nx, ny): True at the first attempt that does not
\* raise, False when every attempt raised; then the counters.
StepClick ==
    /\ st_pc = "act"
    /\ st_ev.action_type = "mouse_click"
    /\ st_calls' = Append(st_calls, "_intelligent_click")
    /\ st_exec' = IF st_platform_ok THEN "True" ELSE "False"
    /\ st_success' = IF st_platform_ok THEN st_success + 1 ELSE st_success
    /\ st_fail' = IF st_platform_ok THEN st_fail ELSE st_fail + 1
    /\ st_pc' = "done"
    /\ UNCHANGED <<st_ev, st_target, st_platform_ok, st_rec_win, st_win_rect, st_at>>
    /\ UNCHANGED notStep

\* Any other action_type: no branch, nothing is done.
StepIgnore ==
    /\ st_pc = "body"
    /\ st_ev.action_type \notin {"key_press", "key_release", "mouse_scroll", "mouse_click"}
    /\ st_pc' = "done"
    /\ UNCHANGED <<st_ev, st_target, st_platform_ok, st_rec_win, st_win_rect,
                   st_calls, st_at, st_exec, st_success, st_fail>>
    /\ UNCHANGED notStep

StepNext == StepKey \/ StepResolve \/ StepScroll \/ StepClick \/ StepIgnore

\* Whether the call named f has been made.
Called(f) == \E k \in 1 .. Len(st_calls) : st_calls[k] = f

\* C13: no operation of the Action Executor lets a platform exception escape:
\* each one that was called returned a boolean to the orchestrator.
C13_ExecutorReturnsBoolean ==
    st_exec \in {"not_called", "True", "False"}

\* C17: for a click or scroll event the translator is called if and only if
\* the cascade returned absent, and a point returned by the cascade is the
\* point handed to the Action Executor; a key event calls neither the cascade
\* nor the translator.
C17_TranslateOnlyAsFallback ==
    st_pc = "done" =>
        /\ st_ev.action_type \in {"mouse_click", "mouse_scroll"} =>
              /\ Called("_try_find_click_target")
              /\ Called("_translate_coord") <=> ~st_target.found
              /\ st_target.found => st_at = st_target.pt
              /\ ~st_target.found =>
                    st_at = translate_coord(<<st_ev.x, st_ev.y>>, st_rec_win, st_win_rect)
        /\ st_ev.action_type \in {"key_press", "key_release"} =>
              /\ ~Called("_try_find_click_target")
              /\ ~Called("_translate_coord")

\* C17's case: the cascade returned the point (0, 0) for a click recorded
\* elsewhere, and the click was made there with no translation.
C17_Witness ==
    /\ st_pc = "done"
    /\ st_ev.action_type = "mouse_click"
    /\ st_ev.x = MaxCoord
    /\ st_target = Hit(<<0, 0>>)
    /\ st_at = <<0, 0>>
    /\ Called("_intelligent_click")
    /\ ~Called("_translate_coord")

---------------------------------------------------------------------------
(* The entry of a replay, from the call to the end of the loop:            *)
(* replay_script (simmy.py) and replay (ditto.py).  The loop is kept to    *)
(* what matters here: whether pointer and key actions are executed.        *)

\* How script.json stands.
ScriptFileStates == {"missing", "unparseable", "ok"}

\* How the Simulator setup of replay_script goes: the first step that fails.
SetupOutcomes ==
    {"ok", "no_device", "boot_failed", "not_installed", "install_failed",
     "launch_failed"}

EntryIdle ==
    /\ en_prog = "none"
    /\ en_pc = "off"
    /\ en_file = "ok"
    /\ en_events = 0
    /\ en_title = FALSE
    /\ en_env = "ok"
    /\ en_setup = FALSE
    /\ en_seen = 0
    /\ en_actions = 0
    /\ en_report = "none"
    /\ en_result = "pending"
    /\ en_abort = FALSE
    /\ en_taken = FALSE

EntryInit ==
    /\ en_prog \in {"simmy", "ditto"}
    /\ en_pc = "start"
    /\ en_file \in ScriptFileStates
    /\ en_events \in 0 .. MaxEvents
    /\ en_title \in BOOLEAN
    /\ en_env \in SetupOutcomes
    /\ en_setup = FALSE
    /\ en_seen = 0
    /\ en_actions = 0
    /\ en_report = "none"
    /\ en_result = "pending"
    /\ en_abort = FALSE
    /\ en_taken = FALSE

\* What a function that ends on a structural failure returns: replay_script
\* returns False, ditto's replay returns nothing.
FailureReturn(prog) == IF prog = "simmy" THEN "False" ELSE "None"

\* A check that lets every recording through.
StructureOkAlways(prog, events, title) == TRUE

\* The check made on the parsed recording: replay_script needs events ("if not
\* events"), ditto's replay needs a target title ("if not target_title").
StructureOk(prog, events, title) ==
    IF prog = "simmy" THEN events > 0 ELSE title

\* script_file.exists(), then json.loads / json.load, which raises on a file
\* that is not JSON.
EntryLoad ==
    /\ en_pc = "start"
    /\ CASE en_file = "missing" ->
              /\ en_report' = "script_missing"
              /\ en_result' = FailureReturn(en_prog)
              /\ en_pc' = "done"
         [] en_file = "unparseable" ->
              /\ en_result' = "raised"
              /\ en_pc' = "done"
              /\ UNCHANGED en_report
         [] en_file = "ok" ->
              /\ en_pc' = "check"
              /\ UNCHANGED <<en_report, en_result>>
    /\ UNCHANGED <<en_prog, en_file, en_events, en_title, en_env, en_setup, en_seen,
                   en_actions>>
    /\ UNCHANGED <<en_abort, en_taken>>
    /\ UNCHANGED notEntry

\* The check of the parsed recording; a recording that passes goes on to the
\* Simulator setup (simmy) or to the hotkey listener and the loop (ditto).
EntryCheck ==
    /\ en_pc = "check"
    /\ IF StructureOk(en_prog, en_events, en_title)
       THEN /\ en_pc' = IF en_prog = "simmy" THEN "setup" ELSE "loop"
            /\ UNCHANGED <<en_report, en_result>>
       ELSE /\ en_report' = IF en_prog = "simmy" THEN "no_events" ELSE "no_target"
            /\ en_result' = FailureReturn(en_prog)
            /\ en_pc' = "done"
    /\ UNCHANGED <<en_prog, en_file, en_events, en_title, en_env, en_setup, en_seen,
                   en_actions>>
    /\ UNCHANGED <<en_abort, en_taken>>
    /\ UNCHANGED notEntry

\* replay_script's setup begins: find_or_create_device(sim_name), the first
\* of its commands.  The commands and the sleeps of the setup take time,
\* during which the hotkey's listener runs.
EntrySetup ==
    /\ en_pc = "setup"
    /\ ~en_setup
    /\ en_setup' = TRUE
    /\ UNCHANGED <<en_prog, en_pc, en_file, en_events, en_title, en_env, en_seen,
                   en_actions, en_report, en_result, en_abort, en_taken>>
    /\ UNCHANGED notEntry

\* The setup ends: device, boot, window, install, launch went through and
\* the loop is reached, or the first step that fails prints its message and
\* returns False.
EntrySetupEnd ==
    /\ en_pc = "setup"
    /\ en_setup
    /\ IF en_env = "ok"
       THEN /\ en_pc' = "loop"
            /\ UNCHANGED <<en_report, en_result>>
       ELSE /\ en_report' = en_env
            /\ en_result' = "False"
            /\ en_pc' = "done"
    /\ UNCHANGED <<en_prog, en_file, en_events, en_title, en_env, en_setup, en_seen,
                   en_actions, en_abort, en_taken>>
    /\ UNCHANGED notEntry

\* The abort hotkey is pressed: abort_event.set() by the listener main()
\* started before it called replay_script, stop_event.set() by the listener
\* ditto's replay starts before its loop.
EntryHotkey ==
    /\ ~en_abort
    /\ en_pc \in (IF en_prog = "simmy" THEN {"start", "check", "setup", "loop"}
                  ELSE {"loop"})
    /\ en_abort' = TRUE
    /\ UNCHANGED <<en_prog, en_pc, en_file, en_events, en_title, en_env, en_setup,
                   en_seen, en_actions, en_report, en_result, en_taken>>
    /\ UNCHANGED notEntry

\* The head of the loop takes the next event, the abort signal being clear:
\* the signal is read here and not again before the action.
EntryEvent ==
    /\ en_pc = "loop"
    /\ ~en_taken
    /\ en_seen < en_events
    /\ ~en_abort
    /\ en_seen' = en_seen + 1
    /\ en_taken' = TRUE
    /\ UNCHANGED <<en_prog, en_pc, en_file, en_events, en_title, en_env, en_setup,
                   en_actions, en_report, en_result, en_abort>>
    /\ UNCHANGED notEntry

\* The rest of the iteration: the wait (time.sleep(wait) in simmy; the wait
\* loop in ditto, which a stop signal only cuts short), then the action of
\* the event is executed, or it is not (an ignored type in simmy, a target
\* that is not in the foreground in ditto), whatever the signal.
EntryAct ==
    /\ en_pc = "loop"
    /\ en_taken
    /\ en_taken' = FALSE
    /\ \E acted \in BOOLEAN :
          en_actions' = IF acted THEN en_actions + 1 ELSE en_actions
    /\ UNCHANGED <<en_prog, en_pc, en_file, en_events, en_title, en_env, en_setup,
                   en_seen, en_report, en_result, en_abort>>
    /\ UNCHANGED notEntry

\* What the function returns after the loop: replay_script returns fail == 0
\* (no event seen, no failure), ditto's replay returns nothing.
LoopResults ==
    IF en_prog = "ditto" THEN {"None"}
    ELSE IF en_seen = 0 THEN {"True"}
    ELSE {"True", "False"}

\* The loop head finds the abort signal set: break; 'Replay done' / 'Replay
\* finished.' is printed and the function returns as after the last event.
EntryBreak ==
    /\ en_pc = "loop"
    /\ ~en_taken
    /\ en_seen < en_events
    /\ en_abort
    /\ en_pc' = "done"
    /\ en_report' = "replay_done"
    /\ en_result' \in LoopResults
    /\ UNCHANGED <<en_prog, en_file, en_events, en_title, en_env, en_setup, en_seen,
                   en_actions, en_abort, en_taken>>
    /\ UNCHANGED notEntry

\* The events are exhausted: replay_script returns fail == 0, ditto's replay
\* returns nothing.
EntryFinish ==
    /\ en_pc = "loop"
    /\ ~en_taken
    /\ en_seen = en_events
    /\ en_pc' = "done"
    /\ en_report' = "replay_done"
    /\ en_result' \in LoopResults
    /\ UNCHANGED <<en_prog, en_file, en_events, en_title, en_env, en_setup, en_seen,
                   en_actions, en_abort, en_taken>>
    /\ UNCHANGED notEntry

EntryNext ==
    \/ EntryLoad \/ EntryCheck \/ EntrySetup \/ EntrySetupEnd
    \/ EntryHotkey \/ EntryEvent \/ EntryAct \/ EntryBreak \/ EntryFinish

\* The structural failures of the claim C24.
StructuralFailure ==
    \/ en_file = "missing"
    \/ en_file = "ok" /\ en_prog = "simmy" /\ en_events = 0
    \/ en_file = "ok" /\ en_prog = "ditto" /\ ~en_title

\* C24: when script.json is missing, when the recording has no events (simmy)
\* or no target title (ditto), replay never executes a pointer or key action
\* (nor begins the Simulator setup) and ends by reporting the failure: a
\* message naming it, and for replay_script the value False.
C24_StructuralFailureIsClean ==
    StructuralFailure =>
        /\ en_actions = 0
        /\ ~en_setup
        /\ en_pc \notin {"setup", "loop"}
        /\ en_pc = "done" =>
              /\ en_report \in {"script_missing", "no_events", "no_target"}
              /\ en_result = FailureReturn(en_prog)

\* C24's case: a ditto recording with events and no target title was refused.
C24_Witness ==
    /\ en_pc = "done"
    /\ en_prog = "ditto"
    /\ en_file = "ok"
    /\ en_events > 0
    /\ ~en_title
    /\ en_report = "no_target"
    /\ en_actions = 0

---------------------------------------------------------------------------
(* The emergency abort hotkey of simmy.py: AbortHotkey on a pynput         *)
(* keyboard listener.  The user presses and releases keys; the listener    *)
(* calls on_press and on_release until on_press returns False.             *)

ABORT_KEYS == {"<ctrl>", "<shift>", "a", "f", "k"}

\* The keys of the model: the keys of the chord in their variants, in both
\* cases, a character key outside the chord and a key without a character.
HotkeyKeys == {"ctrl", "ctrl_l", "ctrl_r", "shift", "shift_l", "shift_r",
               "a", "A", "f", "F", "k", "K", "x", "space"}

\* The name on_press files a key under: Key.ctrl, ctrl_l and ctrl_r are
\* "<ctrl>", the shifts "<shift>", a character key its character in lower
\* case (key.char.lower()), any other key its str(key).
KeyName(key) ==
    LET upper == <<"A", "B", "C", "D", "E", "F", "G", "H", "I", "J", "K", "L", "M",
                   "N", "O", "P", "Q", "R", "S", "T", "U", "V", "W", "X", "Y", "Z">>
        lower == <<"a", "b", "c", "d", "e", "f", "g", "h", "i", "j", "k", "l", "m",
                   "n", "o", "p", "q", "r", "s", "t", "u", "v", "w", "x", "y", "z">>
    IN  IF key \in {"ctrl", "ctrl_l", "ctrl_r"}
        THEN "<ctrl>"
        ELSE IF key \in {"shift", "shift_l", "shift_r"}
        THEN "<shift>"
        ELSE IF \E i \in 1 .. Len(upper) : upper[i] = key
        THEN lower[CHOOSE i \in 1 .. Len(upper) : upper[i] = key]
        ELSE key

\* The keys of the chord that are down.
HeldNames(held) == {KeyName(k) : k \in held} \cap ABORT_KEYS

HotkeyIdle ==
    /\ hk_held = {}
    /\ hk_pressed = {}
    /\ hk_alive = FALSE
    /\ hk_abort = FALSE

\* After start_abort_listener(): AbortHotkey.__init__, listener started.
HotkeyInit ==
    /\ hk_held = {}
    /\ hk_pressed = {}
    /\ hk_alive = TRUE
    /\ hk_abort = FALSE

\* A key goes down.  AbortHotkey.on_press: a key of the chord is added to
\* self.pressed; when self.pressed holds the five names the abort signal is
\* set and the callback returns False, which stops the listener.
HotkeyPress ==
    \E key \in HotkeyKeys \ hk_held :
        /\ hk_held' = hk_held \cup {key}
        /\ IF hk_alive
           THEN LET pressed == hk_pressed \cup ({KeyName(key)} \cap ABORT_KEYS)
                IN  /\ hk_pressed' = pressed
                    /\ IF ABORT_KEYS \subseteq pressed
                       THEN hk_abort' = TRUE /\ hk_alive' = FALSE
                       ELSE UNCHANGED <<hk_abort, hk_alive>>
           ELSE UNCHANGED <<hk_pressed, hk_abort, hk_alive>>
        /\ UNCHANGED notHotkey

\* A key goes up.  AbortHotkey.on_release: pass.
HotkeyRelease ==
    \E key \in hk_held :
        /\ hk_held' = hk_held \ {key}
        /\ UNCHANGED <<hk_pressed, hk_abort, hk_alive>>
        /\ UNCHANGED notHotkey

HotkeyNext == HotkeyPress \/ HotkeyRelease

\* C27: the abort signal is set only by a key press that leaves all five keys
\* of the chord Ctrl, Shift, A, F, K down at the same time; keys of the chord
\* pressed and released one after another never set it.
C27_AbortOnlyWhenChordHeld ==
    [][(~hk_abort /\ hk_abort') => (HeldNames(hk_held') = ABORT_KEYS)]_vars

---------------------------------------------------------------------------
(* The foreground gate of ditto.py: replay executes an event, and record   *)
(* appends one, after is_window_foreground(target_title) has returned      *)
(* True.  record's callbacks run on the threads of its two listeners, the  *)
(* mouse listener's and the keyboard listener's, beside the thread of      *)
(* record itself.  Which window is in front changes at any time, by the    *)
(* user or by bring_to_front.  A title is a sequence of characters.        *)

\* meta.target_title, the title of the window picked at recording.
TargetTitle == <<"p", "a", "d">>

\* The titles of the other windows: none (no active window, or one without
\* a title), a part of the target's title, the same title, a title with the
\* target's title inside, a title with nothing in common.
OtherTitles == {<< >>, <<"a", "d">>, <<"p", "a", "d">>, <<"p", "a", "d", "s">>,
                <<"w", "e", "b">>}

\* The windows that can be in front: the target, or another window.
Windows ==
    {[target |-> TRUE, title |-> TargetTitle]}
        \cup {[target |-> FALSE, title |-> t] : t \in OtherTitles}

\* "s in t" of two strings.
TitleIn(s, t) == \E i \in 0 .. Len(t) - Len(s) : SubSeq(t, i + 1, i + Len(s)) = s

\* is_window_foreground(title_substr) with the window front in front: active
\* is read only when win32gui was imported and is None otherwise;
\* "if not active: return False", then the title test in both directions.
is_window_foreground(win32, front, title_substr) ==
    LET active == IF win32 THEN front.title ELSE << >>
    IN  /\ active # << >>
        /\ TitleIn(title_substr, active) \/ TitleIn(active, title_substr)

\* The window in front after bring_to_front(title_substr): a window whose
\* title holds title_substr has been activated, or the call has changed
\* nothing (no such window, or activate() had no effect).
BroughtToFront(front, title_substr) ==
    {front} \cup {w \in Windows : w.title # << >> /\ TitleIn(title_substr, w.title)}

\* The threads of mouse.Listener and keyboard.Listener.
Listeners == {"ml", "kl"}

\* The events of the callbacks of a listener.
CallbackTypes(th) ==
    IF th = "ml" THEN {"move", "click", "scroll"} ELSE {"key_press", "key_release"}

\* A listener thread that is in no callback.
NoCallback == [pc |-> "idle", type |-> "none", at |-> FALSE]

ForegroundIdle ==
    /\ fg_mode = "none"
    /\ fg_win32 = FALSE
    /\ fg_pc = "off"
    /\ fg_front = [target |-> FALSE, title |-> << >>]
    /\ fg_n = 0
    /\ fg_i = 1
    /\ fg_first = FALSE
    /\ fg_second = FALSE
    /\ fg_status = << >>
    /\ fg_stop = FALSE
    /\ fg_alive = {}
    /\ fg_cb = [th \in Listeners |-> NoCallback]
    /\ fg_rec = << >>
    /\ fg_saved = << >>
    /\ fg_calls = 0

\* replay at its loop with fg_n events to go, or record with its listeners
\* started; win32gui imported or not; any window in front.
ForegroundInit ==
    /\ fg_mode \in {"replay", "record"}
    /\ fg_win32 \in BOOLEAN
    /\ fg_pc = IF fg_mode = "replay" THEN "head" ELSE "listening"
    /\ fg_front \in Windows
    /\ fg_n \in IF fg_mode = "replay" THEN 1 .. MaxEvents ELSE {0}
    /\ fg_i = 1
    /\ fg_first = FALSE
    /\ fg_second = FALSE
    /\ fg_status = << >>
    /\ fg_stop = FALSE
    /\ fg_alive = IF fg_mode = "record" THEN Listeners ELSE {}
    /\ fg_cb = [th \in Listeners |-> NoCallback]
    /\ fg_rec = << >>
    /\ fg_saved = << >>
    /\ fg_calls = 0

\* "if not is_window_foreground(..): if not is_window_foreground(..): continue":
\* the event is skipped when both calls return False.
SkipEvent(first, second) == ~first /\ ~second

\* Another window comes to the front, while replay, record or a callback of
\* record runs.
ForegroundChange ==
    /\ fg_mode # "none"
    /\ fg_pc # "done" \/ \E th \in Listeners : fg_cb[th].pc # "idle"
    /\ fg_front' \in Windows \ {fg_front}
    /\ UNCHANGED <<fg_mode, fg_win32, fg_pc, fg_n, fg_i, fg_first, fg_second, fg_status,
                   fg_stop, fg_alive, fg_cb, fg_rec, fg_saved, fg_calls>>
    /\ UNCHANGED notForeground

\* The stop hotkey, while the GlobalHotKeys listener runs: on_stop sets
\* stop_event.
ForegroundStop ==
    /\ fg_pc \notin {"off", "dump", "done"}
    /\ ~fg_stop
    /\ fg_stop' = TRUE
    /\ UNCHANGED <<fg_mode, fg_win32, fg_pc, fg_front, fg_n, fg_i, fg_first, fg_second,
                   fg_status, fg_alive, fg_cb, fg_rec, fg_saved, fg_calls>>
    /\ UNCHANGED notForeground

\* The head of replay's loop: no event left, or stop_event set: the loop ends.
GateHead ==
    /\ fg_pc = "head"
    /\ fg_pc' = IF fg_stop \/ fg_i > fg_n THEN "done" ELSE "wait"
    /\ UNCHANGED <<fg_mode, fg_win32, fg_front, fg_n, fg_i, fg_first, fg_second, fg_status,
                   fg_stop, fg_alive, fg_cb, fg_rec, fg_saved, fg_calls>>
    /\ UNCHANGED notForeground

\* The wait before the event: no wait, or a wait in which, the check having
\* returned False, bring_to_front is called.
GateWait ==
    /\ fg_pc = "wait"
    /\ fg_pc' = "check1"
    /\ fg_front' \in IF is_window_foreground(fg_win32, fg_front, TargetTitle)
                     THEN {fg_front}
                     ELSE BroughtToFront(fg_front, TargetTitle)
    /\ UNCHANGED <<fg_mode, fg_win32, fg_n, fg_i, fg_first, fg_second, fg_status, fg_stop,
                   fg_alive, fg_cb, fg_rec, fg_saved, fg_calls>>
    /\ UNCHANGED notForeground

\* The first is_window_foreground(target_title).
GateCheck1 ==
    /\ fg_pc = "check1"
    /\ LET first == is_window_foreground(fg_win32, fg_front, TargetTitle)
       IN  /\ fg_first' = first
           /\ fg_pc' = IF first THEN "act" ELSE "check2"
    /\ fg_second' = FALSE
    /\ UNCHANGED <<fg_mode, fg_win32, fg_front, fg_n, fg_i, fg_status, fg_stop, fg_alive,
                   fg_cb, fg_rec, fg_saved, fg_calls>>
    /\ UNCHANGED notForeground

\* The second is_window_foreground(target_title): the event is skipped
\* ("continue"), or goes on to its action.
GateCheck2 ==
    /\ fg_pc = "check2"
    /\ LET second == is_window_foreground(fg_win32, fg_front, TargetTitle)
       IN  /\ fg_second' = second
           /\ IF SkipEvent(fg_first, second)
              THEN /\ fg_status' = Append(fg_status,
                                          [first |-> fg_first, second |-> second,
                                           executed |-> FALSE, target |-> fg_front.target])
                   /\ fg_i' = fg_i + 1
                   /\ fg_pc' = "head"
              ELSE /\ fg_pc' = "act"
                   /\ UNCHANGED <<fg_status, fg_i>>
    /\ UNCHANGED <<fg_mode, fg_win32, fg_front, fg_n, fg_first, fg_stop, fg_alive, fg_cb,
                   fg_rec, fg_saved, fg_calls>>
    /\ UNCHANGED notForeground

\* The action of the event, in its try/except: the pyautogui call goes to
\* the window that is in front now; then the next event.
GateAct ==
    /\ fg_pc = "act"
    /\ fg_status' = Append(fg_status, [first |-> fg_first, second |-> fg_second,
                                       executed |-> TRUE, target |-> fg_front.target])
    /\ fg_i' = fg_i + 1
    /\ fg_pc' = "head"
    /\ UNCHANGED <<fg_mode, fg_win32, fg_front, fg_n, fg_first, fg_second, fg_stop,
                   fg_alive, fg_cb, fg_rec, fg_saved, fg_calls>>
    /\ UNCHANGED notForeground

\* The user moves the pointer, clicks, scrolls or uses a key: the listener
\* that is running calls its callback on its own thread; at is whether the
\* target window is in front at the time of the event.
HandlerEnter(th) ==
    /\ th \in fg_alive
    /\ fg_cb[th].pc = "idle"
    /\ fg_calls < MaxCalls
    /\ fg_calls' = fg_calls + 1
    /\ \E type \in CallbackTypes(th) :
          fg_cb' = [fg_cb EXCEPT ![th] = [pc |-> "check", type |-> type,
                                          at |-> fg_front.target]]
    /\ UNCHANGED <<fg_mode, fg_win32, fg_pc, fg_front, fg_n, fg_i, fg_first, fg_second,
                   fg_status, fg_stop, fg_alive, fg_rec, fg_saved>>
    /\ UNCHANGED notForeground

\* "if is_window_foreground(target_title):" of the callback.
HandlerCheck(th) ==
    /\ fg_cb[th].pc = "check"
    /\ fg_cb' = [fg_cb EXCEPT ![th] =
                    IF is_window_foreground(fg_win32, fg_front, TargetTitle)
                    THEN [@ EXCEPT !.pc = "append"]
                    ELSE NoCallback]
    /\ UNCHANGED <<fg_mode, fg_win32, fg_pc, fg_front, fg_n, fg_i, fg_first, fg_second,
                   fg_status, fg_stop, fg_alive, fg_rec, fg_saved, fg_calls>>
    /\ UNCHANGED notForeground

\* events.append({...}) of a callback whose check returned True.
HandlerAppend(th) ==
    /\ fg_cb[th].pc = "append"
    /\ fg_rec' = Append(fg_rec, [type |-> fg_cb[th].type, at |-> fg_cb[th].at])
    /\ fg_cb' = [fg_cb EXCEPT ![th] = NoCallback]
    /\ UNCHANGED <<fg_mode, fg_win32, fg_pc, fg_front, fg_n, fg_i, fg_first, fg_second,
                   fg_status, fg_stop, fg_alive, fg_saved, fg_calls>>
    /\ UNCHANGED notForeground

\* record's loop finds stop_event set and goes to its finally clause.
RecordLoopEnd ==
    /\ fg_pc = "listening"
    /\ fg_stop
    /\ fg_pc' = "stop_ml"
    /\ UNCHANGED <<fg_mode, fg_win32, fg_front, fg_n, fg_i, fg_first, fg_second, fg_status,
                   fg_stop, fg_alive, fg_cb, fg_rec, fg_saved, fg_calls>>
    /\ UNCHANGED notForeground

\* ml.stop(): the mouse listener calls no further callback; the one it is
\* in goes on (stop() does not wait for the thread).
RecordStopMouse ==
    /\ fg_pc = "stop_ml"
    /\ fg_alive' = fg_alive \ {"ml"}
    /\ fg_pc' = "stop_kl"
    /\ UNCHANGED <<fg_mode, fg_win32, fg_front, fg_n, fg_i, fg_first, fg_second, fg_status,
                   fg_stop, fg_cb, fg_rec, fg_saved, fg_calls>>
    /\ UNCHANGED notForeground

\* kl.stop(); hk.stop().
RecordStopKeyboard ==
    /\ fg_pc = "stop_kl"
    /\ fg_alive' = fg_alive \ {"kl"}
    /\ fg_pc' = "dump"
    /\ UNCHANGED <<fg_mode, fg_win32, fg_front, fg_n, fg_i, fg_first, fg_second, fg_status,
                   fg_stop, fg_cb, fg_rec, fg_saved, fg_calls>>
    /\ UNCHANGED notForeground

\* json.dump(payload, fh): the events appended so far are written to
\* script.json.
RecordDump ==
    /\ fg_pc = "dump"
    /\ fg_saved' = fg_rec
    /\ fg_pc' = "done"
    /\ UNCHANGED <<fg_mode, fg_win32, fg_front, fg_n, fg_i, fg_first, fg_second, fg_status,
                   fg_stop, fg_alive, fg_cb, fg_rec, fg_calls>>
    /\ UNCHANGED notForeground

ForegroundNext ==
    \/ ForegroundChange \/ ForegroundStop
    \/ GateHead \/ GateWait \/ GateCheck1 \/ GateCheck2 \/ GateAct
    \/ \E th \in Listeners : HandlerEnter(th)
    \/ \E th \in Listeners : HandlerCheck(th)
    \/ \E th \in Listeners : HandlerAppend(th)
    \/ RecordLoopEnd \/ RecordStopMouse \/ RecordStopKeyboard \/ RecordDump

\* C28: in ditto's replay an event's action is executed only when the target
\* window is the window in front; an event whose foreground check fails is
\* skipped, once and for good, and replay goes on with the next event (every
\* event gone through has one outcome, and a replay that was not stopped goes
\* through all of them); and record appends an event only when the target
\* window was in front at the time of the event.
C28_OnlyInForeground ==
    /\ \A k \in 1 .. Len(fg_status) :
          /\ fg_status[k].executed => fg_status[k].target
          /\ SkipEvent(fg_status[k].first, fg_status[k].second) => ~fg_status[k].executed
    /\ fg_mode = "replay" =>
          /\ Len(fg_status) = fg_i - 1
          /\ (fg_pc = "done" /\ ~fg_stop) => Len(fg_status) = fg_n
    /\ \A k \in 1 .. Len(fg_rec) : fg_rec[k].at

---------------------------------------------------------------------------
(* Job control of svn3.py: JobManager, and the GUI's background action     *)
(* (_start_background_action, _execute_action_background).  Threads call   *)
(* start_job for a working copy; the one that gets True runs the action    *)
(* and finishes the job in its finally clause.  Each method of JobManager  *)
(* runs under job_lock.                                                    *)

JobThreads == {"t1", "t2", "t3"}

WorkingCopies == {"wc1", "wc2"}

\* active_jobs: no entry, an Event that is clear, an Event that is set.
JobStates == {"none", "clear", "set"}

JobsIdle ==
    /\ jm_active = [w \in WorkingCopies |-> "none"]
    /\ jm_lock = "off"
    /\ jm_pc = [t \in JobThreads |-> "off"]
    /\ jm_wc = [t \in JobThreads |-> "wc1"]
    /\ jm_last = [t \in JobThreads |-> "none"]

\* After JobManager.__init__: no job, the lock free; the working copy each
\* thread will ask for first is any.
JobsInit ==
    /\ jm_active = [w \in WorkingCopies |-> "none"]
    /\ jm_lock = "none"
    /\ jm_pc = [t \in JobThreads |-> "idle"]
    /\ jm_wc \in [JobThreads -> WorkingCopies]
    /\ jm_last = [t \in JobThreads |-> "none"]

\* A lock that is never held.
LockFreeAlways == TRUE

\* "with self.job_lock": the lock can be taken.
LockFree == jm_lock = "none"

\* start_job(w) takes the lock.
JobStartAcquire(t) ==
    /\ jm_pc[t] = "idle"
    /\ LockFree
    /\ jm_lock' = t
    /\ jm_pc' = [jm_pc EXCEPT ![t] = "check"]
    /\ \E w \in WorkingCopies : jm_wc' = [jm_wc EXCEPT ![t] = w]
    /\ UNCHANGED <<jm_active, jm_last>>
    /\ UNCHANGED notJobs

\* "if working_copy in self.active_jobs: return False" (and
\* _start_background_action returns).
JobStartCheck(t) ==
    /\ jm_pc[t] = "check"
    /\ IF jm_active[jm_wc[t]] # "none"
       THEN /\ jm_pc' = [jm_pc EXCEPT ![t] = "idle"]
            /\ jm_last' = [jm_last EXCEPT ![t] = "refused"]
            /\ jm_lock' = "none"
       ELSE /\ jm_pc' = [jm_pc EXCEPT ![t] = "insert"]
            /\ UNCHANGED <<jm_last, jm_lock>>
    /\ UNCHANGED <<jm_active, jm_wc>>
    /\ UNCHANGED notJobs

\* "self.active_jobs[working_copy] = threading.Event(); return True"; the
\* background thread of the action is started.
JobStartInsert(t) ==
    /\ jm_pc[t] = "insert"
    /\ jm_active' = [jm_active EXCEPT ![jm_wc[t]] = "clear"]
    /\ jm_lock' = "none"
    /\ jm_pc' = [jm_pc EXCEPT ![t] = "running"]
    /\ jm_last' = [jm_last EXCEPT ![t] = "started"]
    /\ UNCHANGED jm_wc
    /\ UNCHANGED notJobs

\* _execute_action_background: the action returns its result, or raises and
\* the except clause queues the error.
JobAction(t) ==
    /\ jm_pc[t] = "running"
    /\ \E raised \in BOOLEAN :
          jm_last' = [jm_last EXCEPT ![t] = IF raised THEN "raised" ELSE "completed"]
    /\ jm_pc' = [jm_pc EXCEPT ![t] = "finally"]
    /\ UNCHANGED <<jm_active, jm_lock, jm_wc>>
    /\ UNCHANGED notJobs

\* finally: finish_job(wc_path) takes the lock.
JobFinishAcquire(t) ==
    /\ jm_pc[t] = "finally"
    /\ LockFree
    /\ jm_lock' = t
    /\ jm_pc' = [jm_pc EXCEPT ![t] = "finish"]
    /\ UNCHANGED <<jm_active, jm_wc, jm_last>>
    /\ UNCHANGED notJobs

\* finish_job: the Event of the working copy is set and its entry deleted.
JobFinish(t) ==
    /\ jm_pc[t] = "finish"
    /\ jm_active' = [jm_active EXCEPT ![jm_wc[t]] = "none"]
    /\ jm_lock' = "none"
    /\ jm_pc' = [jm_pc EXCEPT ![t] = "idle"]
    /\ UNCHANGED <<jm_wc, jm_last>>
    /\ UNCHANGED notJobs

\* cancel_job(w), from the UI thread: under the lock, the Event of an active
\* job is set; for a working copy with no job nothing happens.
JobCancel(w) ==
    /\ LockFree
    /\ jm_active' = IF jm_active[w] # "none"
                    THEN [jm_active EXCEPT ![w] = "set"]
                    ELSE jm_active
    /\ UNCHANGED <<jm_lock, jm_pc, jm_wc, jm_last>>
    /\ UNCHANGED notJobs

JobsNext ==
    \/ \E t \in JobThreads :
          \/ JobStartAcquire(t) \/ JobStartCheck(t) \/ JobStartInsert(t)
          \/ JobAction(t) \/ JobFinishAcquire(t) \/ JobFinish(t)
    \/ \E w \in WorkingCopies : JobCancel(w)

\* The threads that hold the job of a working copy: start_job gave them True
\* and their finish_job has not run.
JobOwners(w) ==
    {t \in JobThreads : jm_wc[t] = w /\ jm_pc[t] \in {"running", "finally", "finish"}}

\* C30: under every interleaving a working copy has at most one job, and it
\* is active exactly while a thread holds it; start_job returns True only
\* when no job is active for the working copy, and marks it active; it
\* returns False only when one is active; cancel_job sets the Event and
\* leaves the job active; only finish_job of the holder removes a job; and a
\* thread whose action has ended, by returning or by raising, has finished
\* its job.
C30_OneJobPerWorkingCopy ==
    /\ [](\A w \in WorkingCopies :
             /\ jm_active[w] \in JobStates
             /\ Cardinality(JobOwners(w)) <= 1
             /\ (jm_active[w] # "none") <=> (JobOwners(w) # {}))
    /\ [][\A t \in JobThreads :
             /\ (jm_pc[t] = "insert" /\ jm_pc'[t] = "running")
                   => (jm_active[jm_wc[t]] = "none" /\ jm_active'[jm_wc[t]] = "clear")
             /\ (jm_pc[t] = "check" /\ jm_pc'[t] = "idle")
                   => (jm_active[jm_wc[t]] # "none" /\ jm_active' = jm_active)
             /\ (jm_pc[t] = "check" /\ jm_active[jm_wc[t]] # "none")
                   => (jm_pc'[t] # "insert")]_vars
    /\ [][\A w \in WorkingCopies :
             /\ (jm_active[w] = "clear" /\ jm_active'[w] = "set")
                   => (jm_pc' = jm_pc /\ JobOwners(w) # {})
             /\ (jm_active[w] # "none" /\ jm_active'[w] = "none")
                   => (\E t \in JobOwners(w) : jm_pc[t] = "finish" /\ jm_pc'[t] = "idle")]_vars

\* C30's case: a thread whose action raised has finished its job, the job of
\* the other working copy, cancelled, is still held by a second thread, and a
\* third was refused.
C30_Witness ==
    \E t1 \in JobThreads : \E t2 \in JobThreads : \E t3 \in JobThreads :
        /\ jm_last[t1] = "raised"
        /\ jm_pc[t1] = "idle"
        /\ jm_active[jm_wc[t1]] = "none"
        /\ jm_wc[t2] # jm_wc[t1]
        /\ jm_pc[t2] = "running"
        /\ jm_active[jm_wc[t2]] = "set"
        /\ jm_last[t3] = "refused"
        /\ jm_pc[t3] = "idle"

---------------------------------------------------------------------------
(* _detect_ui_changes of simmy.py on its own: one call on a pair of        *)
(* hashes.                                                                 *)

\* The hashes a call is given: None, or the 16 hex digits of _img_hash.
DetectInputs == {"none", "h1", "h2", "h3", "h4", "h5", "h6", "h7"}

DetectIdle ==
    /\ dc_pc = "off"
    /\ dc_before = "none"
    /\ dc_after = "none"
    /\ dc_changed = FALSE

DetectInit ==
    /\ dc_pc = "call"
    /\ dc_before \in DetectInputs
    /\ dc_after \in DetectInputs
    /\ dc_changed = FALSE

\* The call returns.
DetectCall ==
    /\ dc_pc = "call"
    /\ dc_changed' = detect_ui_changes(dc_before, dc_after)
    /\ dc_pc' = "done"
    /\ UNCHANGED <<dc_before, dc_after>>
    /\ UNCHANGED notDetect

DetectNext == DetectCall

\* C19: changed(before, after) is true if and only if both hashes are present
\* and differ: changed(a, a) is false for every present a, changed(absent, x)
\* and changed(x, absent) are false for every x.
C19_ChangedIffPresentAndDiffer ==
    dc_pc = "done" =>
        /\ dc_changed <=>
              (dc_before # "none" /\ dc_after # "none" /\ dc_before # dc_after)
        /\ dc_before = dc_after => ~dc_changed
        /\ (dc_before = "none" \/ dc_after = "none") => ~dc_changed

\* C19's case: a call on the same present hash twice returned False.
C19_Witness ==
    /\ dc_pc = "done"
    /\ dc_before = "h1"
    /\ dc_after = "h1"
    /\ ~dc_changed

---------------------------------------------------------------------------
(* The specifications.                                                     *)

InitTranslate == TranslateInit /\ ClickIdle /\ CascadeIdle /\ SnipIdle /\ RecordIdle /\ ReplayIdle /\ RoundTripIdle /\ StepIdle /\ EntryIdle /\ HotkeyIdle /\ ForegroundIdle /\ JobsIdle /\ DetectIdle

SpecTranslate == InitTranslate /\ [][Translate]_vars

InitClick == TranslateIdle /\ ClickInit /\ CascadeIdle /\ SnipIdle /\ RecordIdle /\ ReplayIdle /\ RoundTripIdle /\ StepIdle /\ EntryIdle /\ HotkeyIdle /\ ForegroundIdle /\ JobsIdle /\ DetectIdle

SpecClick == InitClick /\ [][ClickNext]_vars

InitCascade == TranslateIdle /\ ClickIdle /\ CascadeInit /\ SnipIdle /\ RecordIdle /\ ReplayIdle /\ RoundTripIdle /\ StepIdle /\ EntryIdle /\ HotkeyIdle /\ ForegroundIdle /\ JobsIdle /\ DetectIdle

SpecCascade == InitCascade /\ [][CascadeNext]_vars

InitSnip == TranslateIdle /\ ClickIdle /\ CascadeIdle /\ SnipInit /\ RecordIdle /\ ReplayIdle /\ RoundTripIdle /\ StepIdle /\ EntryIdle /\ HotkeyIdle /\ ForegroundIdle /\ JobsIdle /\ DetectIdle

SpecSnip == InitSnip /\ [][SnipNext]_vars

InitRecord == TranslateIdle /\ ClickIdle /\ CascadeIdle /\ SnipIdle /\ RecordInit /\ ReplayIdle /\ RoundTripIdle /\ StepIdle /\ EntryIdle /\ HotkeyIdle /\ ForegroundIdle /\ JobsIdle /\ DetectIdle

SpecRecord == InitRecord /\ [][RecordNext]_vars

InitReplay == TranslateIdle /\ ClickIdle /\ CascadeIdle /\ SnipIdle /\ RecordIdle /\ ReplayInit /\ RoundTripIdle /\ StepIdle /\ EntryIdle /\ HotkeyIdle /\ ForegroundIdle /\ JobsIdle /\ DetectIdle

SpecReplay == InitReplay /\ [][ReplayNext]_vars

InitRoundTrip == TranslateIdle /\ ClickIdle /\ CascadeIdle /\ SnipIdle /\ RecordIdle /\ ReplayIdle /\ RoundTripInit /\ StepIdle /\ EntryIdle /\ HotkeyIdle /\ ForegroundIdle /\ JobsIdle /\ DetectIdle

SpecRoundTrip == InitRoundTrip /\ [][RoundTripNext]_vars

InitStep == TranslateIdle /\ ClickIdle /\ CascadeIdle /\ SnipIdle /\ RecordIdle /\ ReplayIdle /\ RoundTripIdle /\ StepInit /\ EntryIdle /\ HotkeyIdle /\ ForegroundIdle /\ JobsIdle /\ DetectIdle

SpecStep == InitStep /\ [][StepNext]_vars

InitEntry == TranslateIdle /\ ClickIdle /\ CascadeIdle /\ SnipIdle /\ RecordIdle /\ ReplayIdle /\ RoundTripIdle /\ StepIdle /\ EntryInit /\ HotkeyIdle /\ ForegroundIdle /\ JobsIdle /\ DetectIdle

SpecEntry == InitEntry /\ [][EntryNext]_vars

InitHotkey == TranslateIdle /\ ClickIdle /\ CascadeIdle /\ SnipIdle /\ RecordIdle /\ ReplayIdle /\ RoundTripIdle /\ StepIdle /\ EntryIdle /\ HotkeyInit /\ ForegroundIdle /\ JobsIdle /\ DetectIdle

SpecHotkey == InitHotkey /\ [][HotkeyNext]_vars

InitForeground == TranslateIdle /\ ClickIdle /\ CascadeIdle /\ SnipIdle /\ RecordIdle /\ ReplayIdle /\ RoundTripIdle /\ StepIdle /\ EntryIdle /\ HotkeyIdle /\ ForegroundInit /\ JobsIdle /\ DetectIdle

SpecForeground == InitForeground /\ [][ForegroundNext]_vars

InitJobs == TranslateIdle /\ ClickIdle /\ CascadeIdle /\ SnipIdle /\ RecordIdle /\ ReplayIdle /\ RoundTripIdle /\ StepIdle /\ EntryIdle /\ HotkeyIdle /\ ForegroundIdle /\ JobsInit /\ DetectIdle

SpecJobs == InitJobs /\ [][JobsNext]_vars

InitDetect == TranslateIdle /\ ClickIdle /\ CascadeIdle /\ SnipIdle /\ RecordIdle /\ ReplayIdle /\ RoundTripIdle /\ StepIdle /\ EntryIdle /\ HotkeyIdle /\ ForegroundIdle /\ JobsIdle /\ DetectInit

SpecDetect == InitDetect /\ [][DetectNext]_vars

====
